---- MODULE Spec2Model ----
(***************************************************************************)
(* State-machine model of ask-anything: ExplanationService (create with    *)
(* duplicate lookup, daily usage gate, vision analysis, insert, usage log  *)
(* and user statistics; getById, list, toggleFavorite, delete),            *)
(* OpenAIService.analyzeImage (result cache, primary request, fallback     *)
(* request, reply parser) and ChatService (sendMessage, getHistory,        *)
(* clearHistory).  Every awaited database, cache, storage or provider      *)
(* operation is one step of the calling request, so concurrent requests    *)
(* interleave at the awaits exactly as the Node event loop lets them.      *)
(***************************************************************************)
EXTENDS Integers, Sequences, FiniteSets, TLC

VARIABLES
    now,            \* wall clock (Date.now()), milliseconds
    users,          \* user table: id -> row
    explanations,   \* explanation table, in insertion order; id = index
    usageLog,       \* number of rows of usage_log
    cache,          \* redis: cache key -> [value, expiresAt]
    pc,             \* per request: the await it is suspended at
    op,             \* per request: the operation being executed
    req,            \* per request: the arguments of the call
    snap,           \* per request: the user row read by checkUsageLimit
    tnow,           \* per request: the `now` taken by checkUsageLimit
    analysis,       \* per request: the VisionAnalysisResponse in hand
    newId,          \* per request: id of the record the call inserted
    ret,            \* per request: value returned / error thrown
    calls,          \* per request: client.chat.completions.create calls made
    sent,           \* per request: HTTP requests the client sent to the provider
    outcome,        \* per request: how its latest provider request ended
    reply,          \* per request: the reply text of its latest provider request
    target,         \* per request: the explanation id the call was given
    found,          \* per request: the row its findFirst returned
    out,            \* per request: the value the call returns
    history,        \* per request: what getHistory returned to it
    context,        \* per request: the messages it passed to the chat model
    messages,       \* message table, in insertion order
    storageCalls,   \* deleteImage calls issued to the object store
    deletedOK,      \* ids whose delete call has returned without error
    objects,        \* objects the modelled requests wrote to the object store
    http,           \* per request: the route handler's input and response
    oddToggles,     \* ids whose flag an odd number of toggleFavorite calls wrote
    pre,            \* per request: tables as they were when the call began
    overlapped,     \* per request: another request was active during it
    cacheFault,     \* per request: a cache operation failed during it
    resetTimes,     \* the `now` of the last two counter resets
    lastOK,         \* cache key -> last successful analyzeImage result
    session,        \* useAuthStore: the session, or NoSession
    refreshPromise, \* APIClient.refreshPromise: "null", "pending" or "rejected"
    requests,       \* per client request: interceptor position, config, result
    posts,          \* refresh requests sent and not yet answered
    issued,         \* access tokens the auth endpoint has issued
    isConnected,    \* NetInfo: the device's connectivity
    offline,        \* useOfflineStore: isOnline and queue
    appended,       \* the url of every addToQueue call, in call order
    processed,      \* ids of the queued requests processed successfully
    lastRun         \* the last processQueue run: queue found, outcomes, queue left

clientVars == <<session, refreshPromise, requests, posts, issued, isConnected,
                offline, appended, processed, lastRun>>

vars == <<now, users, explanations, usageLog, cache, pc, op, req, snap, tnow,
          analysis, newId, ret, calls, sent, outcome, reply, pre, overlapped,
          cacheFault, resetTimes, lastOK, target, found, out, history,
          context, messages, storageCalls, deletedOK, objects, http, oddToggles, clientVars>>

(***************************************************************************)
(* Bounds of the model                                                     *)
(***************************************************************************)
NumImages == 2
MaxObjects == 2
NumStored == 101
MaxMs == 1
MaxRateRequests == 12
MaxNew == 2
TicksPerDay == 2
MaxTicks == 1

(***************************************************************************)
(* Program constants                                                       *)
(***************************************************************************)
NULL == 0 - 1
DayMs == 24 * 60 * 60 * 1000
CACHE_TTL == 60 * 60 * 24 * 7
MAX_RETRIES == 3
FreeLimit == 10
ProLimit == 1000
DeveloperLimit == 10000
\* confidences are kept in tenths: 0.7 is 7, 1 is 10
ConfOne == 10
ConfParsedDefault == 8
ConfRawText == 7
ConfFallback == 5

Procs == {"p1", "p2"}
UserIds == {"u1", "u2"}
Caller == "u1"
Images == 1..NumImages
Tiers == {"free", "pro", "developer"}
Step == DayMs \div TicksPerDay
StartTime == DayMs
MaxTime == StartTime + MaxTicks * Step

Max(a, b) == IF a >= b THEN a ELSE b
Min(a, b) == IF a <= b THEN a ELSE b

(***************************************************************************)
(* checkUsageLimit: limits[user.subscription_tier] || limits.free          *)
(***************************************************************************)
limits == [free |-> FreeLimit, pro |-> ProLimit, developer |-> DeveloperLimit]

LimitOf(tier) == IF tier \in DOMAIN limits THEN limits[tier] ELSE limits["free"]

\* the comparison with the limit off by one
LimitReached_Gt(row) == row.daily_usage_count > LimitOf(row.subscription_tier)

\* user.daily_usage_count >= limit
LimitReached(row) == row.daily_usage_count >= LimitOf(row.subscription_tier)

\* the analysis run before the usage check
Pipeline_AnalysisFirst(stage) ==
    CASE stage = "findDuplicate" -> "cacheGet"
      [] stage = "analysis" -> "checkRead"
      [] stage = "check" -> "insert"

\* The order of create: what follows a duplicate miss, a passed usage check
\* and a returned analysis.
Pipeline(stage) ==
    CASE stage = "findDuplicate" -> "checkRead"
      [] stage = "check" -> "cacheGet"
      [] stage = "analysis" -> "insert"

\* the reset taken only for a user without a window
ResetNeeded_OnlyNull(row, t) == row.daily_usage_reset_at = NULL

\* !user.daily_usage_reset_at || user.daily_usage_reset_at < now
ResetNeeded(row, t) ==
    \/ row.daily_usage_reset_at = NULL
    \/ row.daily_usage_reset_at < t

(***************************************************************************)
(* Provider replies.  A reply text is described by what parseResponse can  *)
(* observe of it: whether it is empty, whether it holds a fenced block,    *)
(* and the JSON value of the candidate string (the fenced block's inside,  *)
(* or the whole reply when there is no fence).                             *)
(***************************************************************************)
NoJson == [valid |-> FALSE, isNull |-> FALSE, explanation |-> "", category |-> "",
           tagsIsArray |-> FALSE, tags |-> <<>>,
           confIsNumber |-> FALSE, confidence |-> 0]

EmptyText == [text |-> "", fence |-> FALSE, json |-> NoJson]

RawText == [text |-> "It is a cat", fence |-> FALSE, json |-> NoJson]

FencedJson ==
    [text |-> "fenced block: A fern", fence |-> TRUE,
     json |-> [valid |-> TRUE, isNull |-> FALSE,
               explanation |-> "A fern", category |-> "identification",
               tagsIsArray |-> TRUE, tags |-> <<"plant">>,
               confIsNumber |-> TRUE, confidence |-> 15]]

\* a JSON object whose confidence is a negative number
NegativeJson ==
    [text |-> "{explanation: A moth, confidence: -0.3}", fence |-> FALSE,
     json |-> [valid |-> TRUE, isNull |-> FALSE, explanation |-> "A moth",
               category |-> "", tagsIsArray |-> FALSE, tags |-> <<>>,
               confIsNumber |-> TRUE, confidence |-> 0 - 3]]

\* a fenced block that does not hold JSON
FencedText == [text |-> "fenced block: a fern, I think", fence |-> TRUE,
               json |-> NoJson]

\* an unfenced JSON object without category, tags array or numeric confidence
BareJson ==
    [text |-> "{explanation: A key, tags: none}", fence |-> FALSE,
     json |-> [valid |-> TRUE, isNull |-> FALSE, explanation |-> "A key",
               category |-> "", tagsIsArray |-> FALSE, tags |-> <<>>,
               confIsNumber |-> FALSE, confidence |-> 0]]

\* the JSON text null
JsonNull == [text |-> "null", fence |-> FALSE,
             json |-> [NoJson EXCEPT !.valid = TRUE, !.isNull = TRUE]]

\* a JSON number: its properties are all undefined
JsonScalar == [text |-> "42", fence |-> FALSE,
               json |-> [NoJson EXCEPT !.valid = TRUE]]

\* the non-empty reply texts the parser is checked against
ParserInputs ==
    {RawText, FencedJson, NegativeJson, FencedText, BareJson, JsonNull, JsonScalar}

\* what the provider finally answers to one call of
\* client.chat.completions.create
FinalReplies ==
    { [outcome |-> "ok", content |-> RawText, total_tokens |-> 0],
      [outcome |-> "ok", content |-> FencedJson, total_tokens |-> 120],
      [outcome |-> "ok", content |-> EmptyText, total_tokens |-> 0],
      [outcome |-> "bad_request", content |-> EmptyText, total_tokens |-> 0],
      [outcome |-> "transient", content |-> EmptyText, total_tokens |-> 0] }

\* The client is built with maxRetries: MAX_RETRIES.  A request that times out
\* or is answered 429 or 5xx ("transient") is sent again by the client, up to
\* MAX_RETRIES more times; the call resolves or rejects with the answer to its
\* last request.  `retried` is the number of requests sent before that one:
\* a call that rejects with a transient error has used up every retry.
Retries(final) ==
    IF final.outcome = "transient" THEN {MAX_RETRIES} ELSE 0..MAX_RETRIES

\* what client.chat.completions.create resolves or rejects with
ProviderResponses ==
    UNION { { [outcome |-> final.outcome, content |-> final.content,
               total_tokens |-> final.total_tokens, retried |-> k] :
                k \in Retries(final) } : final \in FinalReplies }

\* the replies the concurrent create requests are checked against: one
\* usable reply and each kind of failure, the transient ones after every
\* retry, the others at the first request
CreateResponses ==
    { resp \in ProviderResponses :
        /\ resp.content = RawText \/ resp.outcome # "ok"
        /\ resp.retried = (IF resp.outcome = "transient" THEN MAX_RETRIES ELSE 0) }

RejectedResponses == { resp \in ProviderResponses : resp.outcome # "ok" }

NoAnalysis == [explanation |-> "", category |-> "", tags |-> <<>>,
               confidence |-> 0, tokensUsed |-> 0]

\* parseResponse, lines 271-286: how the try block ends.  JSON.parse throws a
\* SyntaxError on a candidate string that is not JSON; reading a property of
\* the parsed value throws a TypeError when that value is null.
TryParse(response) ==
    IF ~response.json.valid THEN "SyntaxError"
    ELSE IF response.json.isNull THEN "TypeError"
    ELSE "returned"

\* the reply's confidence taken as it is
clamp_None(confidence) == confidence

\* parseResponse, line 284: Math.max(0, Math.min(1, parsed.confidence))
clamp(confidence) == Max(0, Min(ConfOne, confidence))

\* unparseable text given the confidence of parsed text
parseResponse_ParsedDefault(response) ==
    [explanation |-> response.text, category |-> "other",
     tags |-> <<>>, confidence |-> ConfParsedDefault]

\* OpenAIService.parseResponse
parseResponse(response) ==
    IF TryParse(response) = "returned"
    THEN [explanation |-> IF response.json.explanation # ""
                          THEN response.json.explanation ELSE response.text,
          category |-> IF response.json.category # ""
                       THEN response.json.category ELSE "other",
          tags |-> IF response.json.tagsIsArray THEN response.json.tags ELSE <<>>,
          confidence |-> IF response.json.confIsNumber
                         THEN clamp(response.json.confidence)
                         ELSE ConfParsedDefault]
    ELSE [explanation |-> response.text, category |-> "other",
          tags |-> <<>>, confidence |-> ConfRawText]

\* analyzeImage, lines 99-108: the result built from a non-empty reply
PrimaryResult(resp) ==
    [explanation |-> parseResponse(resp.content).explanation,
     category |-> parseResponse(resp.content).category,
     tags |-> parseResponse(resp.content).tags,
     confidence |-> parseResponse(resp.content).confidence,
     tokensUsed |-> resp.total_tokens]

\* fallbackAnalysis, lines 332-341
FallbackResult(resp) ==
    [explanation |-> IF resp.content.text # "" THEN resp.content.text
                     ELSE "Unable to analyze image.",
     category |-> "other", tags |-> <<>>, confidence |-> ConfFallback,
     tokensUsed |-> resp.total_tokens]

\* JSON.stringify(data) in saveToCache and JSON.parse(cached) in getFromCache
JSONstringify(r) == <<r.explanation, r.category, r.tags, r.confidence, r.tokensUsed>>

JSONparse(s) == [explanation |-> s[1], category |-> s[2], tags |-> s[3],
                 confidence |-> s[4], tokensUsed |-> s[5]]

\* the VisionAnalysisRequest create builds from its own request (lines 63-68)
AnalysisRequest(r) ==
    [imageUrl |-> r.imageUrl, prompt |-> r.prompt,
     isDeveloperMode |-> r.isDeveloperMode,
     language |-> IF r.language # "" THEN r.language ELSE "en"]

\* OpenAIService.getCacheKey: sha256 of the four inputs, taken as injective
getCacheKey(a) == <<a.imageUrl, a.prompt, a.isDeveloperMode, a.language>>

CacheKeyOf(p) ==
    IF op[p] = "create" THEN getCacheKey(AnalysisRequest(req[p]))
    ELSE getCacheKey(req[p])

\* redis.get: the entry, unless absent or expired
CacheHit(key) == key \in DOMAIN cache /\ now < cache[key].expiresAt

(***************************************************************************)
(* Tables                                                                  *)
(***************************************************************************)
Row(id, owner, hash, url, created, deleted, a) ==
    [id |-> id, user_id |-> owner, image_hash |-> hash, image_url |-> url,
     image_thumbnail_url |-> url,
     created_at |-> created, deleted_at |-> deleted,
     view_count |-> 0, is_favorited |-> FALSE,
     explanation_text |-> a.explanation, category |-> a.category,
     tags |-> a.tags, confidence_score |-> a.confidence]

\* findFirst found nothing
NoRow == Row(NULL, "", 0, 0, NULL, NULL, NoAnalysis)

\* no value returned yet
NoResult == [data |-> <<>>, total |-> 0, totalPages |-> 0, flag |-> FALSE]

SeedAnalysis == [explanation |-> "A mug", category |-> "identification",
                 tags |-> <<>>, confidence |-> ConfRawText, tokensUsed |-> 0]

\* Records present before the modelled requests: image 1 held live by another
\* user, and the caller's own record of image 1, soft-deleted.
SeedExplanations ==
    << Row(1, "u2", 1, 1, StartTime - 2 * Step, NULL, SeedAnalysis),
       [Row(2, Caller, 1, 1, StartTime - 2 * Step, NULL, SeedAnalysis)
            EXCEPT !.deleted_at = StartTime - Step] >>

\* The same, and two live records of image 2 that two racing creates of the
\* caller left behind, the second one the more recent.
SeedWithDuplicates ==
    SeedExplanations \o
    << Row(3, Caller, 2, 2, StartTime - 2 * Step, NULL, SeedAnalysis),
       Row(4, Caller, 2, 2, StartTime - Step, NULL, SeedAnalysis) >>

\* records inserted by the modelled requests
NewRecords == { i \in 1..Len(explanations) : explanations[i].created_at >= StartTime }

OtherUser == [subscription_tier |-> "free", daily_usage_count |-> 1,
              daily_usage_reset_at |-> StartTime + Step,
              total_explanations |-> 1]

CreateRequests ==
    { [userId |-> Caller, imageUrl |-> h, imageHash |-> h, prompt |-> "",
       isDeveloperMode |-> FALSE, language |-> ""] : h \in Images }

NoReq == [userId |-> "", imageUrl |-> 0, imageHash |-> 0, prompt |-> "",
          isDeveloperMode |-> FALSE, language |-> "",
          page |-> 0, limit |-> 0, favoritesOnly |-> FALSE, message |-> "",
          category |-> "", search |-> <<>>]

\* the route handler has not been entered
NoResponse == [status |-> 0, body |-> [error |-> ""]]
NoHttp == [stage |-> "none", body |-> NoReq, response |-> NoResponse]

NoRet == [kind |-> "none", id |-> NULL, msg |-> ""]
Ok(id) == [kind |-> "ok", id |-> id, msg |-> ""]
Err(msg) == [kind |-> "error", id |-> NULL, msg |-> msg]

QuotaExceeded == "Daily usage limit exceeded"
EmptyResponse == "Empty response from OpenAI"
FallbackFailed == "Failed to analyze image"
ProviderError == "OpenAI API error"
LogFailed == "usage_log write failed"
AnalyticsFailed == "analytics capture failed"

NoPre == [users |-> <<>>, explanations |-> <<>>, now |-> NULL, total |-> 0,
         messages |-> <<>>, storageCalls |-> 0]

\* the call-entry snapshot of a request that shares its time with another
\* request keeps only the entry time and lifetime total
Shared(snapshot) ==
    [snapshot EXCEPT !.users = <<>>, !.explanations = <<>>, !.messages = <<>>]

Active(q) == pc[q] # "idle"

\* the tables as a request finds them when it enters
Entry == [users |-> users, explanations |-> explanations, now |-> now,
          total |-> users[Caller].total_explanations,
          messages |-> messages, storageCalls |-> storageCalls]

\* the lookup that finds nothing
Duplicates_None(userId, imageHash) == {}

\* prisma.explanation.findFirst({user_id, image_hash, deleted_at: null},
\*                              orderBy created_at desc)
Duplicates(userId, imageHash) ==
    { i \in 1..Len(explanations) :
        /\ explanations[i].user_id = userId
        /\ explanations[i].image_hash = imageHash
        /\ explanations[i].deleted_at = NULL }

Newest(S) ==
    { i \in S : \A j \in S : explanations[j].created_at <= explanations[i].created_at }

\* the oldest match returned instead of the newest
findDuplicate_Oldest(userId, imageHash) ==
    { i \in Duplicates(userId, imageHash) :
        \A j \in Duplicates(userId, imageHash) :
            explanations[i].created_at <= explanations[j].created_at }

findDuplicate(userId, imageHash) == Newest(Duplicates(userId, imageHash))

(***************************************************************************)
(* The mobile API client (lib/api/client.ts), the session of useAuthStore  *)
(* and useOfflineStore.  A request is one call of this.client(config); its *)
(* stage is the await it is suspended at.  Access tokens are numbered in   *)
(* the order the auth endpoint issues them; the first session holds 0.     *)
(***************************************************************************)
MaxRequests == 3
Requests == 1..MaxRequests

NoSession == [access_token |-> NULL, refresh_token |-> FALSE]

FirstSession == [access_token |-> 0, refresh_token |-> TRUE]

NoConnection == "No internet connection"
RefreshFailed == "Token refresh failed"
StatusError == "Request failed with status code"

\* `joined`: the request received its 401 while a refresh was in flight
NoRequest == [stage |-> "idle", retry |-> FALSE, authorization |-> NULL,
              newToken |-> NULL, result |-> "none", error |-> "", sends |-> 0,
              joined |-> FALSE]

NoRun == [found |-> <<>>, failed |-> {}, left |-> <<>>]

InitClient ==
    /\ session = FirstSession
    /\ refreshPromise = "null"
    /\ requests = [r \in Requests |-> NoRequest]
    /\ posts = 0
    /\ issued = 0
    /\ isConnected = TRUE
    /\ offline = [isOnline |-> TRUE, queue |-> <<>>]
    /\ appended = <<>>
    /\ processed = <<>>
    /\ lastRun = NoRun

(***************************************************************************)
(* Initial states: the caller's counter one below the tier's limit,        *)
(* in a window that ends at the initial instant.                           *)
(***************************************************************************)
InitLocals ==
    /\ pc = [p \in Procs |-> "idle"]
    /\ op = [p \in Procs |-> "none"]
    /\ req = [p \in Procs |-> NoReq]
    /\ snap = [p \in Procs |-> OtherUser]
    /\ tnow = [p \in Procs |-> NULL]
    /\ analysis = [p \in Procs |-> NoAnalysis]
    /\ newId = [p \in Procs |-> NULL]
    /\ ret = [p \in Procs |-> NoRet]
    /\ calls = [p \in Procs |-> 0]
    /\ sent = [p \in Procs |-> 0]
    /\ outcome = [p \in Procs |-> "none"]
    /\ reply = [p \in Procs |-> EmptyText]
    /\ target = [p \in Procs |-> NULL]
    /\ found = [p \in Procs |-> NoRow]
    /\ out = [p \in Procs |-> NoResult]
    /\ history = [p \in Procs |-> <<>>]
    /\ context = [p \in Procs |-> <<>>]
    /\ pre = [p \in Procs |-> NoPre]
    /\ overlapped = [p \in Procs |-> FALSE]
    /\ cacheFault = [p \in Procs |-> FALSE]
    /\ http = [p \in Procs |-> NoHttp]
    /\ InitClient

InitTables(tier, count, resetAt, seed) ==
    /\ now = StartTime
    /\ users = [u \in UserIds |->
                  IF u = Caller
                  THEN [subscription_tier |-> tier, daily_usage_count |-> count,
                        daily_usage_reset_at |-> resetAt,
                        total_explanations |->
                            count + Cardinality({i \in 1..Len(seed) :
                                                    seed[i].user_id = Caller})]
                  ELSE OtherUser]
    /\ explanations = seed
    /\ usageLog = 0
    /\ cache = <<>>
    /\ resetTimes = <<NULL, IF resetAt = NULL THEN NULL ELSE resetAt - DayMs>>
    /\ lastOK = <<>>
    /\ messages = <<>>
    /\ storageCalls = 0
    /\ deletedOK = {}
    /\ objects = {}
    /\ oddToggles = {}

Init ==
    /\ InitLocals
    /\ \E tier \in Tiers :
            InitTables(tier, LimitOf(tier) - 1, StartTime, SeedExplanations)

(***************************************************************************)
(* ExplanationService.create                                               *)
(***************************************************************************)
\* a request enters operation o with arguments r and explanation id `id`
BeginWith(p, o, r, id) ==
    /\ pc[p] = "idle"
    /\ op' = [op EXCEPT ![p] = o]
    /\ req' = [req EXCEPT ![p] = r]
    /\ target' = [target EXCEPT ![p] = id]
    /\ pre' = [q \in Procs |->
                 IF q = p
                 THEN IF \E o2 \in Procs \ {p} : Active(o2)
                      THEN Shared(Entry)
                      ELSE Entry
                 ELSE IF Active(q) THEN Shared(pre[q]) ELSE pre[q]]
    /\ overlapped' = [q \in Procs |->
                        IF q = p THEN \E o2 \in Procs \ {p} : Active(o2)
                        ELSE IF Active(q) THEN TRUE ELSE overlapped[q]]
    /\ UNCHANGED <<outcome, reply, found, out, history, context, messages, storageCalls, deletedOK, objects, http, oddToggles, clientVars, now, users, explanations, usageLog, cache, snap, tnow,
                   analysis, newId, ret, calls, sent, cacheFault, resetTimes, lastOK>>

Begin(p, o, r) == BeginWith(p, o, r, NULL)

\* line 48: a request enters create
BeginCreate(p, r) ==
    /\ Begin(p, "create", r)
    /\ pc' = [pc EXCEPT ![p] = "findDuplicate"]

\* the requests of a run insert at most MaxNew records
CanStart == Cardinality(NewRecords) + Cardinality({q \in Procs : Active(q)}) < MaxNew

\* lines 53-57
FindDuplicate(p) ==
    /\ pc[p] = "findDuplicate"
    /\ IF findDuplicate(req[p].userId, req[p].imageHash) = {}
       THEN /\ pc' = [pc EXCEPT ![p] = Pipeline("findDuplicate")]
            /\ ret' = ret
       ELSE \E existing \in findDuplicate(req[p].userId, req[p].imageHash) :
            /\ pc' = [pc EXCEPT ![p] = "done"]
            /\ ret' = [ret EXCEPT ![p] = Ok(existing)]
    /\ UNCHANGED <<outcome, reply, target, found, out, history, context, messages, storageCalls, deletedOK, objects, http, oddToggles, clientVars, now, users, explanations, usageLog, cache, op, req, snap,
                   tnow, analysis, newId, calls, sent, pre, overlapped, cacheFault,
                   resetTimes, lastOK>>

\* checkUsageLimit, lines 267-274: the user row is read
CheckRead(p) ==
    /\ pc[p] = "checkRead"
    /\ snap' = [snap EXCEPT ![p] = users[req[p].userId]]
    /\ pc' = [pc EXCEPT ![p] = "checkNow"]
    /\ UNCHANGED <<outcome, reply, target, found, out, history, context, messages, storageCalls, deletedOK, objects, http, oddToggles, clientVars, now, users, explanations, usageLog, cache, op, req, tnow,
                   analysis, newId, ret, calls, sent, pre, overlapped, cacheFault,
                   resetTimes, lastOK>>

\* checkUsageLimit, lines 281-305: the clock is read and the row evaluated
CheckNow(p) ==
    /\ pc[p] = "checkNow"
    /\ tnow' = [tnow EXCEPT ![p] = now]
    /\ IF ResetNeeded(snap[p], now)
       THEN /\ pc' = [pc EXCEPT ![p] = "checkReset"]
            /\ ret' = ret
       ELSE IF LimitReached(snap[p])
       THEN /\ pc' = [pc EXCEPT ![p] = "done"]
            /\ ret' = [ret EXCEPT ![p] = Err(QuotaExceeded)]
       ELSE /\ pc' = [pc EXCEPT ![p] = Pipeline("check")]
            /\ ret' = ret
    /\ UNCHANGED <<outcome, reply, target, found, out, history, context, messages, storageCalls, deletedOK, objects, http, oddToggles, clientVars, now, users, explanations, usageLog, cache, op, req, snap,
                   analysis, newId, calls, sent, pre, overlapped, cacheFault,
                   resetTimes, lastOK>>

\* checkUsageLimit, lines 283-290: the reset is written, then `return`
CheckReset(p) ==
    /\ pc[p] = "checkReset"
    /\ users' = [users EXCEPT
                   ![req[p].userId].daily_usage_count = 0,
                   ![req[p].userId].daily_usage_reset_at = tnow[p] + DayMs]
    /\ resetTimes' = <<resetTimes[2], tnow[p]>>
    /\ pc' = [pc EXCEPT ![p] = Pipeline("check")]
    /\ UNCHANGED <<outcome, reply, target, found, out, history, context, messages, storageCalls, deletedOK, objects, http, oddToggles, clientVars, now, explanations, usageLog, cache, op, req, snap, tnow,
                   analysis, newId, ret, calls, sent, pre, overlapped, cacheFault,
                   lastOK>>

(***************************************************************************)
(* OpenAIService.analyzeImage, as called by create or directly             *)
(***************************************************************************)
\* how a provider request ended, as analyzeImage tells the cases apart
OutcomeOf(resp) ==
    IF resp.outcome = "ok" /\ resp.content.text = "" THEN "empty" ELSE resp.outcome

\* a rejected request taken for an answered one
AfterPrimary_Swallow(resp) ==
    CASE OutcomeOf(resp) = "bad_request" -> "fallback"
      [] OutcomeOf(resp) = "empty" -> "done"
      [] OTHER -> "saveToCache"

\* where analyzeImage goes after its primary request: on to the cache write,
\* into fallbackAnalysis (APIError with status 400), or out with the error
AfterPrimary(resp) ==
    CASE OutcomeOf(resp) = "ok" -> "saveToCache"
      [] OutcomeOf(resp) = "bad_request" -> "fallback"
      [] OTHER -> "done"

\* analyzeImage / fallbackAnalysis return `result` to the caller
Returned(p, result, fault) ==
    /\ analysis' = [analysis EXCEPT ![p] = result]
    /\ lastOK' = IF op[p] = "analyze" /\ calls'[p] > 0
                 THEN (CacheKeyOf(p) :> [value |-> result, at |-> now,
                                         fault |-> fault]) @@ lastOK
                 ELSE lastOK
    /\ IF op[p] = "create"
       THEN /\ pc' = [pc EXCEPT ![p] = Pipeline("analysis")]
            /\ ret' = ret
       ELSE /\ pc' = [pc EXCEPT ![p] = "done"]
            /\ ret' = [ret EXCEPT ![p] = Ok(NULL)]

\* analyzeImage / fallbackAnalysis throw; create rethrows (lines 107-110)
Thrown(p, msg) ==
    /\ pc' = [pc EXCEPT ![p] = "done"]
    /\ ret' = [ret EXCEPT ![p] = Err(msg)]

CacheEntry(result) ==
    [value |-> JSONstringify(result), expiresAt |-> now + CACHE_TTL * 1000]

CacheReadFailed == "Cache read failed"

\* a failed cache read passed on to the caller
getFromCache_Rethrow(key, readOk) ==
    IF ~readOk THEN "error" ELSE IF CacheHit(key) THEN "hit" ELSE "miss"

\* OpenAIService.getFromCache: the cached value, or null when there is none
\* or when redis.get rejects (the catch returns null)
getFromCache(key, readOk) ==
    IF readOk /\ CacheHit(key) THEN "hit" ELSE "miss"

\* lines 47-55 and getFromCache: a failed read is a miss
CacheGet(p, readOk) ==
    /\ pc[p] = "cacheGet"
    /\ cacheFault' = [cacheFault EXCEPT ![p] = @ \/ ~readOk]
    /\ calls' = calls
    /\ sent' = sent
    /\ CASE getFromCache(CacheKeyOf(p), readOk) = "hit" ->
                Returned(p, JSONparse(cache[CacheKeyOf(p)].value), cacheFault[p])
         [] getFromCache(CacheKeyOf(p), readOk) = "miss" ->
                /\ pc' = [pc EXCEPT ![p] = "primary"]
                /\ UNCHANGED <<analysis, ret, lastOK>>
         [] OTHER ->
                /\ Thrown(p, CacheReadFailed)
                /\ UNCHANGED <<analysis, lastOK>>
    /\ UNCHANGED <<now, users, explanations, usageLog, cache, op, req, snap,
                   tnow, newId, outcome, reply, target, found, out, history, context, messages, storageCalls, deletedOK, objects, http, oddToggles, clientVars, pre, overlapped, resetTimes>>

\* lines 64-108 and the catch of lines 121-130
Primary(p, resp) ==
    /\ pc[p] = "primary"
    /\ calls' = [calls EXCEPT ![p] = @ + 1]
    /\ sent' = [sent EXCEPT ![p] = @ + resp.retried + 1]
    /\ outcome' = [outcome EXCEPT ![p] = OutcomeOf(resp)]
    /\ reply' = [reply EXCEPT ![p] = resp.content]
    /\ analysis' = [analysis EXCEPT ![p] =
                        IF AfterPrimary(resp) = "saveToCache"
                        THEN PrimaryResult(resp) ELSE @]
    /\ IF AfterPrimary(resp) = "done"
       THEN Thrown(p, IF OutcomeOf(resp) = "empty" THEN EmptyResponse
                      ELSE ProviderError)
       ELSE /\ pc' = [pc EXCEPT ![p] = AfterPrimary(resp)]
            /\ ret' = ret
    /\ UNCHANGED <<now, users, explanations, usageLog, cache, op, req, snap,
                   tnow, newId, pre, overlapped, cacheFault, resetTimes, lastOK,
                   target, found, out, history, context, messages,
                   storageCalls, deletedOK, objects, http, oddToggles, clientVars>>

\* line 111 and saveToCache: a failed write is swallowed; then `return result`
SaveToCache(p, writeOk) ==
    /\ pc[p] = "saveToCache"
    /\ cacheFault' = [cacheFault EXCEPT ![p] = @ \/ ~writeOk]
    /\ cache' = IF writeOk
                THEN (CacheKeyOf(p) :> CacheEntry(analysis[p])) @@ cache
                ELSE cache
    /\ calls' = calls
    /\ sent' = sent
    /\ Returned(p, analysis[p], cacheFault[p] \/ ~writeOk)
    /\ UNCHANGED <<now, users, explanations, usageLog, op, req, snap, tnow,
                   newId, outcome, reply, target, found, out, history, context, messages, storageCalls, deletedOK, objects, http, oddToggles, clientVars, pre, overlapped, resetTimes>>

\* fallbackAnalysis, lines 302-347
Fallback(p, resp) ==
    /\ pc[p] = "fallback"
    /\ calls' = [calls EXCEPT ![p] = @ + 1]
    /\ sent' = [sent EXCEPT ![p] = @ + resp.retried + 1]
    /\ outcome' = [outcome EXCEPT ![p] = OutcomeOf(resp)]
    /\ reply' = [reply EXCEPT ![p] = resp.content]
    /\ IF resp.outcome = "ok"
       THEN Returned(p, FallbackResult(resp), cacheFault[p])
       ELSE Thrown(p, FallbackFailed) /\ UNCHANGED <<analysis, lastOK>>
    /\ UNCHANGED <<now, users, explanations, usageLog, cache, op, req, snap,
                   tnow, newId, pre, overlapped, cacheFault, resetTimes,
                   target, found, out, history, context, messages,
                   storageCalls, deletedOK, objects, http, oddToggles, clientVars>>

(***************************************************************************)
(* ExplanationService.create, after the analysis                           *)
(***************************************************************************)
\* lines 71-87
Insert(p) ==
    /\ pc[p] = "insert"
    /\ explanations' = Append(explanations,
            Row(Len(explanations) + 1, req[p].userId, req[p].imageHash,
                req[p].imageUrl, now, NULL, analysis[p]))
    /\ newId' = [newId EXCEPT ![p] = Len(explanations) + 1]
    /\ pc' = [pc EXCEPT ![p] = "logUsage"]
    /\ UNCHANGED <<outcome, reply, target, found, out, history, context, messages, storageCalls, deletedOK, objects, http, oddToggles, clientVars, now, users, usageLog, cache, op, req, snap, tnow, analysis,
                   ret, calls, sent, pre, overlapped, cacheFault, resetTimes, lastOK>>

\* line 90 and logUsage: the awaited usage_log insert, which may reject
LogUsage(p, writeOk) ==
    /\ pc[p] = "logUsage"
    /\ IF writeOk
       THEN /\ usageLog' = usageLog + 1
            /\ pc' = [pc EXCEPT ![p] = "updateUserStats"]
            /\ ret' = ret
       ELSE /\ usageLog' = usageLog
            /\ Thrown(p, LogFailed)
    /\ UNCHANGED <<outcome, reply, target, found, out, history, context, messages, storageCalls, deletedOK, objects, http, oddToggles, clientVars, now, users, explanations, cache, op, req, snap, tnow,
                   analysis, newId, calls, sent, pre, overlapped, cacheFault,
                   resetTimes, lastOK>>

\* updateUserStats: both counters incremented in one UPDATE
IncrementStats(row) ==
    [row EXCEPT !.daily_usage_count = @ + 1, !.total_explanations = @ + 1]

\* lines 93-105: the counters are incremented, the analytics event is
\* captured (a throw of it is not caught), the response is returned
UpdateUserStats(p, analyticsOk) ==
    /\ pc[p] = "updateUserStats"
    /\ users' = [users EXCEPT ![req[p].userId] = IncrementStats(@)]
    /\ pc' = [pc EXCEPT ![p] = "done"]
    /\ ret' = [ret EXCEPT ![p] = IF analyticsOk THEN Ok(newId[p])
                                 ELSE Err(AnalyticsFailed)]
    /\ UNCHANGED <<outcome, reply, target, found, out, history, context, messages, storageCalls, deletedOK, objects, http, oddToggles, clientVars, now, explanations, usageLog, cache, op, req, snap, tnow,
                   analysis, newId, calls, sent, pre, overlapped, cacheFault,
                   resetTimes, lastOK>>

\* the caller has the result; the request slot is free again
Return(p) ==
    /\ pc[p] = "done"
    /\ http[p].stage \in {"none", "responded"}
    /\ http' = [http EXCEPT ![p] = NoHttp]
    /\ pc' = [pc EXCEPT ![p] = "idle"]
    /\ op' = [op EXCEPT ![p] = "none"]
    /\ req' = [req EXCEPT ![p] = NoReq]
    /\ snap' = [snap EXCEPT ![p] = OtherUser]
    /\ tnow' = [tnow EXCEPT ![p] = NULL]
    /\ analysis' = [analysis EXCEPT ![p] = NoAnalysis]
    /\ newId' = [newId EXCEPT ![p] = NULL]
    /\ ret' = [ret EXCEPT ![p] = NoRet]
    /\ calls' = [calls EXCEPT ![p] = 0]
    /\ sent' = [sent EXCEPT ![p] = 0]
    /\ outcome' = [outcome EXCEPT ![p] = "none"]
    /\ reply' = [reply EXCEPT ![p] = EmptyText]
    /\ pre' = [pre EXCEPT ![p] = NoPre]
    /\ overlapped' = [overlapped EXCEPT ![p] = FALSE]
    /\ cacheFault' = [cacheFault EXCEPT ![p] = FALSE]
    /\ target' = [target EXCEPT ![p] = NULL]
    /\ found' = [found EXCEPT ![p] = NoRow]
    /\ out' = [out EXCEPT ![p] = NoResult]
    /\ history' = [history EXCEPT ![p] = <<>>]
    /\ context' = [context EXCEPT ![p] = <<>>]
    /\ UNCHANGED <<now, users, explanations, usageLog, cache, resetTimes, lastOK,
                   messages, storageCalls, deletedOK, objects, oddToggles, clientVars>>

\* time passes
Tick ==
    /\ now + Step <= MaxTime
    /\ now' = now + Step
    /\ UNCHANGED <<outcome, reply, target, found, out, history, context, messages, storageCalls, deletedOK, objects, http, oddToggles, clientVars, users, explanations, usageLog, cache, pc, op, req, snap,
                   tnow, analysis, newId, ret, calls, sent, pre, overlapped,
                   cacheFault, resetTimes, lastOK>>

Next ==
    \/ \E p \in Procs : \E r \in CreateRequests : CanStart /\ BeginCreate(p, r)
    \/ \E p \in Procs : FindDuplicate(p)
    \/ \E p \in Procs : CheckRead(p)
    \/ \E p \in Procs : CheckNow(p)
    \/ \E p \in Procs : CheckReset(p)
    \/ \E p \in Procs : CacheGet(p, TRUE)
    \/ \E p \in Procs : \E resp \in CreateResponses : Primary(p, resp)
    \/ \E p \in Procs : SaveToCache(p, TRUE)
    \/ \E p \in Procs : \E resp \in CreateResponses : Fallback(p, resp)
    \/ \E p \in Procs : Insert(p)
    \/ \E p \in Procs : \E writeOk \in BOOLEAN : LogUsage(p, writeOk)
    \/ \E p \in Procs : \E analyticsOk \in BOOLEAN : UpdateUserStats(p, analyticsOk)
    \/ \E p \in Procs : Return(p)
    \/ Tick

Spec == Init /\ [][Next]_vars

(***************************************************************************)
(* One request at a time, against every reply and every cache fault.       *)
(***************************************************************************)
P1 == "p1"

InitSeq ==
    /\ InitLocals
    /\ \E tier \in Tiers :
       \E count \in {LimitOf(tier) - 1, LimitOf(tier)} :
       \E resetAt \in {StartTime, StartTime + Step} :
            InitTables(tier, count, resetAt, SeedWithDuplicates)

NextSeq ==
    \/ \E r \in CreateRequests : CanStart /\ BeginCreate(P1, r)
    \/ FindDuplicate(P1)
    \/ CheckRead(P1)
    \/ CheckNow(P1)
    \/ CheckReset(P1)
    \/ \E readOk \in BOOLEAN : CacheGet(P1, readOk)
    \/ \E resp \in ProviderResponses : Primary(P1, resp)
    \/ \E writeOk \in BOOLEAN : SaveToCache(P1, writeOk)
    \/ \E resp \in ProviderResponses : Fallback(P1, resp)
    \/ Insert(P1)
    \/ \E writeOk \in BOOLEAN : LogUsage(P1, writeOk)
    \/ \E analyticsOk \in BOOLEAN : UpdateUserStats(P1, analyticsOk)
    \/ Return(P1)
    \/ Tick

SpecSeq == InitSeq /\ [][NextSeq]_vars

(***************************************************************************)
(* A free-tier user with an unused counter sends one image after another,  *)
(* each one new, within one window; the database and analytics are up.     *)
(***************************************************************************)
FreshRequest ==
    [userId |-> Caller, imageUrl |-> NumImages + Cardinality(NewRecords) + 1,
     imageHash |-> NumImages + Cardinality(NewRecords) + 1, prompt |-> "",
     isDeveloperMode |-> FALSE, language |-> ""]

InitFresh ==
    /\ InitLocals
    /\ \E resetAt \in {NULL, StartTime + DayMs} :
            InitTables("free", 0, resetAt, SubSeq(SeedExplanations, 1, 1))

\* time passes, the window stays open
TickInWindow ==
    /\ \/ users[Caller].daily_usage_reset_at = NULL
       \/ now + Step < users[Caller].daily_usage_reset_at
    /\ Tick

NextFresh ==
    \/ Cardinality(NewRecords) <= FreeLimit /\ BeginCreate(P1, FreshRequest)
    \/ FindDuplicate(P1)
    \/ CheckRead(P1)
    \/ CheckNow(P1)
    \/ CheckReset(P1)
    \/ CacheGet(P1, TRUE)
    \/ \E resp \in CreateResponses : Primary(P1, resp)
    \/ SaveToCache(P1, TRUE)
    \/ \E resp \in RejectedResponses : Fallback(P1, resp)
    \/ Insert(P1)
    \/ LogUsage(P1, TRUE)
    \/ UpdateUserStats(P1, TRUE)
    \/ Return(P1)
    \/ TickInWindow

SpecFresh == InitFresh /\ [][NextFresh]_vars

(***************************************************************************)
(* analyzeImage called on its own, over the lifetime of a cache entry.     *)
(***************************************************************************)
TicksPerTtl == 2
MaxTtlTicks == 2
TtlStep == (CACHE_TTL * 1000) \div TicksPerTtl

AnalyzeRequests ==
    { [imageUrl |-> 1, prompt |-> "", isDeveloperMode |-> FALSE, language |-> "en"],
      [imageUrl |-> 1, prompt |-> "why?", isDeveloperMode |-> FALSE, language |-> "en"] }

\* line 40: a caller enters analyzeImage
BeginAnalyze(p, a) ==
    /\ Begin(p, "analyze", [NoReq EXCEPT !.imageUrl = a.imageUrl,
                                         !.prompt = a.prompt,
                                         !.isDeveloperMode = a.isDeveloperMode,
                                         !.language = a.language])
    /\ pc' = [pc EXCEPT ![p] = "cacheGet"]

\* time passes, in fractions of the cache lifetime
TickTtl ==
    /\ now + TtlStep <= StartTime + MaxTtlTicks * TtlStep
    /\ now' = now + TtlStep
    /\ UNCHANGED <<outcome, reply, target, found, out, history, context, messages, storageCalls, deletedOK, objects, http, oddToggles, clientVars, users, explanations, usageLog, cache, pc, op, req, snap,
                   tnow, analysis, newId, ret, calls, sent, pre, overlapped,
                   cacheFault, resetTimes, lastOK>>

InitAnalyze ==
    /\ InitLocals
    /\ InitTables("free", 0, StartTime + Step, SeedExplanations)

NextAnalyze ==
    \/ \E a \in AnalyzeRequests : BeginAnalyze(P1, a)
    \/ \E readOk \in BOOLEAN : CacheGet(P1, readOk)
    \/ \E resp \in ProviderResponses : Primary(P1, resp)
    \/ \E writeOk \in BOOLEAN : SaveToCache(P1, writeOk)
    \/ \E resp \in CreateResponses : Fallback(P1, resp)
    \/ Return(P1)
    \/ TickTtl

SpecAnalyze == InitAnalyze /\ [][NextAnalyze]_vars

(***************************************************************************)
(* ExplanationService.getById, list, toggleFavorite and delete             *)
(***************************************************************************)
MaxViews == 1
MaxStorageCalls == 2
MaxRecreated == 1
MaxLimit == 2

NotFound == "Explanation not found"
StorageFailed == "storage deletion failed"

\* what the record operations leave alone: the state of create and analyze
PipelineVars == <<now, users, usageLog, cache, snap, tnow, analysis, newId,
                  calls, sent, outcome, reply, cacheFault, resetTimes, lastOK>>

ChatVars == <<history, context, messages>>

\* the lookup that also returns soft-deleted records
findFirstLive_AnyState(id, userId) ==
    IF id \in 1..Len(explanations) /\ explanations[id].user_id = userId
    THEN explanations[id] ELSE NoRow

\* prisma.explanation.findFirst({ id, user_id, deleted_at: null })
findFirstLive(id, userId) ==
    IF /\ id \in 1..Len(explanations)
       /\ explanations[id].user_id = userId
       /\ explanations[id].deleted_at = NULL
    THEN explanations[id] ELSE NoRow

\* prisma.explanation.findFirst({ id, user_id })
findFirstOwned(id, userId) ==
    IF id \in 1..Len(explanations) /\ explanations[id].user_id = userId
    THEN explanations[id] ELSE NoRow

\* the ids a caller may pass: every stored id and one that is not stored
Ids == 1..(Len(explanations) + 1)

ByUser(userId) == [NoReq EXCEPT !.userId = userId]

\* line 116
BeginGetById(p, id, userId) ==
    /\ BeginWith(p, "getById", ByUser(userId), id)
    /\ pc' = [pc EXCEPT ![p] = "getByIdFind"]

\* lines 117-127
GetByIdFind(p) ==
    /\ pc[p] = "getByIdFind"
    /\ found' = [found EXCEPT ![p] = findFirstLive(target[p], req[p].userId)]
    /\ IF findFirstLive(target[p], req[p].userId) = NoRow
       THEN /\ pc' = [pc EXCEPT ![p] = "done"]
            /\ ret' = [ret EXCEPT ![p] = Ok(NULL)]
       ELSE /\ pc' = [pc EXCEPT ![p] = "getByIdUpdate"]
            /\ ret' = ret
    /\ UNCHANGED <<explanations, op, req, target, out, pre, overlapped,
                   storageCalls, deletedOK, objects, http, oddToggles, clientVars>>
    /\ UNCHANGED PipelineVars
    /\ UNCHANGED ChatVars

\* a fetch that leaves the counter as it was
Viewed_Lost(row) == row

\* data: { view_count: { increment: 1 } }
Viewed(row) == [row EXCEPT !.view_count = @ + 1]

\* lines 130-135: the view counter is incremented, the row read is returned
GetByIdUpdate(p) ==
    /\ pc[p] = "getByIdUpdate"
    /\ explanations' = [explanations EXCEPT ![target[p]] = Viewed(@)]
    /\ out' = [out EXCEPT ![p] = [NoResult EXCEPT !.data = <<found[p].id>>]]
    /\ ret' = [ret EXCEPT ![p] = Ok(found[p].id)]
    /\ pc' = [pc EXCEPT ![p] = "done"]
    /\ UNCHANGED <<op, req, target, found, pre, overlapped, storageCalls, deletedOK, objects, http, oddToggles, clientVars>>
    /\ UNCHANGED PipelineVars
    /\ UNCHANGED ChatVars

RECURSIVE TotalViews(_)
TotalViews(n) ==
    IF n = 0 THEN 0 ELSE explanations[n].view_count + TotalViews(n - 1)

\* the fetches of a run are bounded
CanView == TotalViews(Len(explanations)) < MaxViews

\* search.toLowerCase(), and the folding of mode: 'insensitive'; a text is
\* the sequence of its characters
LowerCase(text) ==
    [k \in 1..Len(text) |->
        CASE text[k] = "A" -> "a"
          [] text[k] = "F" -> "f"
          [] text[k] = "G" -> "g"
          [] text[k] = "M" -> "m"
          [] text[k] = "U" -> "u"
          [] OTHER -> text[k]]

\* { contains: search, mode: 'insensitive' }
Contains(text, search) ==
    \E k \in 1..(Len(text) - Len(search) + 1) :
        SubSeq(LowerCase(text), k, k + Len(search) - 1) = LowerCase(search)

\* { has: search.toLowerCase() }
Has(tags, search) == \E k \in 1..Len(tags) : tags[k] = LowerCase(search)

\* lines 157-175: where = { user_id, deleted_at: null } and the filters that
\* are given
ListMatches(r) ==
    { i \in 1..Len(explanations) :
        /\ explanations[i].user_id = r.userId
        /\ explanations[i].deleted_at = NULL
        /\ r.category # "" => explanations[i].category = r.category
        /\ r.favoritesOnly => explanations[i].is_favorited
        /\ r.search # <<>> =>
                \/ Contains(explanations[i].explanation_text, r.search)
                \/ Has(explanations[i].tags, r.search) }

\* every order of the records of one instant
RECURSIVE Perms(_)
Perms(T) ==
    IF T = {} THEN { <<>> }
    ELSE UNION { { <<i>> \o rest : rest \in Perms(T \ {i}) } : i \in T }

\* orderBy created_at desc: every order of the records in which no record
\* comes before a more recent one; records of one instant come in any order.
\* The records are split at a median instant.
RECURSIVE Orderings(_)
Orderings(S) ==
    IF S = {} THEN { <<>> }
    ELSE LET Newer(i) == { j \in S : explanations[j].created_at > explanations[i].created_at }
             Older(i) == { j \in S : explanations[j].created_at < explanations[i].created_at }
             m == CHOOSE i \in S : /\ 2 * Cardinality(Newer(i)) <= Cardinality(S)
                                   /\ 2 * Cardinality(Older(i)) <= Cardinality(S)
         IN  { first \o same \o last :
                    first \in Orderings(Newer(m)),
                    same \in Perms(S \ (Newer(m) \cup Older(m))),
                    last \in Orderings(Older(m)) }

\* skip: (page - 1) * limit, take: limit
PageOf(sorted, page, limit) ==
    SubSeq(sorted, (page - 1) * limit + 1, Min(Len(sorted), page * limit))

\* Math.ceil(total / limit)
CeilDiv(a, b) == (a + b - 1) \div b

ListRequests ==
    { [ByUser(u) EXCEPT !.page = pg, !.limit = l, !.favoritesOnly = f] :
        u \in UserIds, pg \in 1..2, l \in 1..MaxLimit, f \in BOOLEAN }

\* line 141
BeginList(p, r) ==
    /\ Begin(p, "list", r)
    /\ pc' = [pc EXCEPT ![p] = "list"]

\* lines 177-193
List(p) ==
    /\ pc[p] = "list"
    /\ \E sorted \in Orderings(ListMatches(req[p])) :
       out' = [out EXCEPT ![p] =
                [NoResult EXCEPT
                    !.data = PageOf(sorted, req[p].page, req[p].limit),
                    !.total = Cardinality(ListMatches(req[p])),
                    !.totalPages = CeilDiv(Cardinality(ListMatches(req[p])),
                                           req[p].limit)]]
    /\ ret' = [ret EXCEPT ![p] = Ok(NULL)]
    /\ pc' = [pc EXCEPT ![p] = "done"]
    /\ UNCHANGED <<explanations, op, req, target, found, pre, overlapped,
                   storageCalls, deletedOK, objects, http, oddToggles, clientVars>>
    /\ UNCHANGED PipelineVars
    /\ UNCHANGED ChatVars

\* line 199
BeginToggleFavorite(p, id, userId) ==
    /\ BeginWith(p, "toggleFavorite", ByUser(userId), id)
    /\ pc' = [pc EXCEPT ![p] = "toggleFind"]

\* lines 200-207
ToggleFind(p) ==
    /\ pc[p] = "toggleFind"
    /\ found' = [found EXCEPT ![p] = findFirstOwned(target[p], req[p].userId)]
    /\ IF findFirstOwned(target[p], req[p].userId) = NoRow
       THEN Thrown(p, NotFound)
       ELSE /\ pc' = [pc EXCEPT ![p] = "toggleUpdate"]
            /\ ret' = ret
    /\ UNCHANGED <<explanations, op, req, target, out, pre, overlapped,
                   storageCalls, deletedOK, objects, http, oddToggles, clientVars>>
    /\ UNCHANGED PipelineVars
    /\ UNCHANGED ChatVars

\* lines 209-216
ToggleUpdate(p) ==
    /\ pc[p] = "toggleUpdate"
    /\ explanations' = [explanations EXCEPT
                            ![target[p]].is_favorited = ~found[p].is_favorited]
    /\ out' = [out EXCEPT ![p] = [NoResult EXCEPT !.flag = ~found[p].is_favorited]]
    /\ ret' = [ret EXCEPT ![p] = Ok(target[p])]
    /\ pc' = [pc EXCEPT ![p] = "done"]
    /\ oddToggles' = IF target[p] \in oddToggles THEN oddToggles \ {target[p]}
                     ELSE oddToggles \cup {target[p]}
    /\ UNCHANGED <<op, req, target, found, pre, overlapped, storageCalls, deletedOK, objects, http, clientVars>>
    /\ UNCHANGED PipelineVars
    /\ UNCHANGED ChatVars

\* line 222
BeginDelete(p, id, userId) ==
    /\ storageCalls < MaxStorageCalls
    /\ BeginWith(p, "delete", ByUser(userId), id)
    /\ pc' = [pc EXCEPT ![p] = "deleteFind"]

\* lines 223-229
DeleteFind(p) ==
    /\ pc[p] = "deleteFind"
    /\ found' = [found EXCEPT ![p] = findFirstOwned(target[p], req[p].userId)]
    /\ IF findFirstOwned(target[p], req[p].userId) = NoRow
       THEN Thrown(p, NotFound)
       ELSE /\ pc' = [pc EXCEPT ![p] = "deleteUpdate"]
            /\ ret' = ret
    /\ UNCHANGED <<explanations, op, req, target, out, pre, overlapped,
                   storageCalls, deletedOK, objects, http, oddToggles, clientVars>>
    /\ UNCHANGED PipelineVars
    /\ UNCHANGED ChatVars

\* lines 232-235: deleted_at: new Date()
DeleteUpdate(p) ==
    /\ pc[p] = "deleteUpdate"
    /\ explanations' = [explanations EXCEPT ![target[p]].deleted_at = now]
    /\ pc' = [pc EXCEPT ![p] = "deleteImage"]
    /\ UNCHANGED <<op, req, target, found, out, ret, pre, overlapped,
                   storageCalls, deletedOK, objects, http, oddToggles, clientVars>>
    /\ UNCHANGED PipelineVars
    /\ UNCHANGED ChatVars

\* delete returns to its caller
Deleted(p) ==
    /\ pc' = [pc EXCEPT ![p] = "done"]
    /\ ret' = [ret EXCEPT ![p] = Ok(target[p])]
    /\ deletedOK' = deletedOK \cup {target[p]}

\* the object store without the image, or thumbnail, stored under a url
Removed(url, thumbnail) ==
    { o \in objects : ~(o.url = url /\ o.thumbnail = thumbnail) }

\* StorageService.deleteImage: the object store removes the object, or the
\* call rejects
deleteImage(removed) == IF removed THEN "resolved" ELSE "rejected"

\* `await this.storage.deleteImage(...)` outside any try block: a rejection
\* leaves delete as its own rejection
AwaitStorage(settled) == IF settled = "resolved" THEN "continue" ELSE "throw"

\* line 238: the image object
DeleteImage(p, removed) ==
    /\ pc[p] = "deleteImage"
    /\ storageCalls' = storageCalls + 1
    /\ IF AwaitStorage(deleteImage(removed)) = "throw"
       THEN Thrown(p, StorageFailed) /\ deletedOK' = deletedOK
       ELSE IF found[p].image_thumbnail_url # NULL
       THEN /\ pc' = [pc EXCEPT ![p] = "deleteThumbnail"]
            /\ UNCHANGED <<ret, deletedOK>>
       ELSE Deleted(p)
    /\ objects' = IF removed THEN Removed(found[p].image_url, FALSE) ELSE objects
    /\ UNCHANGED <<explanations, op, req, target, found, out, pre, overlapped, http, oddToggles, clientVars>>
    /\ UNCHANGED PipelineVars
    /\ UNCHANGED ChatVars

\* lines 239-243: the thumbnail object
DeleteThumbnail(p, removed) ==
    /\ pc[p] = "deleteThumbnail"
    /\ storageCalls' = storageCalls + 1
    /\ IF AwaitStorage(deleteImage(removed)) = "throw"
       THEN Thrown(p, StorageFailed) /\ deletedOK' = deletedOK
       ELSE Deleted(p)
    /\ objects' = IF removed THEN Removed(found[p].image_thumbnail_url, TRUE)
                  ELSE objects
    /\ UNCHANGED <<explanations, op, req, target, found, out, pre, overlapped, http, oddToggles, clientVars>>
    /\ UNCHANGED PipelineVars
    /\ UNCHANGED ChatVars

(***************************************************************************)
(* The record operations of both users, one call at a time, on a store     *)
(* that holds a live record of each user and a soft-deleted one; the       *)
(* caller has not used the daily counter yet.                              *)
(***************************************************************************)
InitRecords ==
    /\ InitLocals
    /\ InitTables("free", 0, NULL, SubSeq(SeedWithDuplicates, 1, 3))

\* the creations of a run are bounded
CanRecreate == Cardinality(NewRecords) < MaxRecreated

\* the provider answers a create with text, or fails
RecordResponses == { resp \in CreateResponses : resp.outcome # "bad_request" }

NextRecords ==
    \/ \E r \in CreateRequests : CanRecreate /\ BeginCreate(P1, r)
    \/ FindDuplicate(P1)
    \/ CheckRead(P1)
    \/ CheckNow(P1)
    \/ CheckReset(P1)
    \/ CacheGet(P1, TRUE)
    \/ \E resp \in RecordResponses : Primary(P1, resp)
    \/ SaveToCache(P1, TRUE)
    \/ Insert(P1)
    \/ LogUsage(P1, TRUE)
    \/ UpdateUserStats(P1, TRUE)
    \/ \E id \in Ids, u \in UserIds : CanView /\ BeginGetById(P1, id, u)
    \/ GetByIdFind(P1)
    \/ GetByIdUpdate(P1)
    \/ \E r \in ListRequests : BeginList(P1, r)
    \/ List(P1)
    \/ \E id \in Ids, u \in UserIds : BeginToggleFavorite(P1, id, u)
    \/ ToggleFind(P1)
    \/ ToggleUpdate(P1)
    \/ \E id \in Ids, u \in UserIds : BeginDelete(P1, id, u)
    \/ DeleteFind(P1)
    \/ DeleteUpdate(P1)
    \/ \E removed \in BOOLEAN : DeleteImage(P1, removed)
    \/ \E removed \in BOOLEAN : DeleteThumbnail(P1, removed)
    \/ Return(P1)

SpecRecords == InitRecords /\ [][NextRecords]_vars

(***************************************************************************)
(* list: pages of a store that does not change                             *)
(***************************************************************************)
AMug == <<"A", " ", "m", "u", "g">>
Fern == <<"A", " ", "f", "e", "r", "n">>
Mugs == <<"M", "u", "g", "s">>
MugTag == <<"m", "u", "g">>
MUG == <<"M", "U", "G">>

ListAnalysis(text, category, tags) ==
    [SeedAnalysis EXCEPT !.explanation = text, !.category = category,
                         !.tags = tags]

\* a live record of another user, a soft-deleted record of the caller, and
\* three live records of the caller, two of them created in the same
\* millisecond and one of them a favourite
SmallStore ==
    << Row(1, "u2", 1, 1, StartTime - 2 * Step, NULL,
           ListAnalysis(AMug, "object", <<>>)),
       [Row(2, Caller, 1, 1, StartTime - 2 * Step, NULL,
            ListAnalysis(AMug, "object", <<>>))
            EXCEPT !.deleted_at = StartTime - Step],
       [Row(3, Caller, 2, 2, StartTime - 2 * Step, NULL,
            ListAnalysis(AMug, "object", <<>>))
            EXCEPT !.is_favorited = TRUE],
       Row(4, Caller, 3, 3, StartTime - 2 * Step, NULL,
           ListAnalysis(Fern, "plant", <<MugTag>>)),
       Row(5, Caller, 4, 4, StartTime - Step, NULL,
           ListAnalysis(Mugs, "object", <<>>)) >>

\* NumStored live records of the caller, created a millisecond apart
LargeStore ==
    [i \in 1..NumStored |->
        Row(i, Caller, i, i, i, NULL, ListAnalysis(AMug, "object", <<>>))]

\* list calls with the given limits
PageRequests(sizes) ==
    { [ByUser(u) EXCEPT !.page = pg, !.limit = l, !.favoritesOnly = f,
                        !.category = c, !.search = q] :
        u \in UserIds, pg \in 1..2, l \in sizes, f \in BOOLEAN,
        c \in {"", "object"}, q \in {<<>>, MUG} }

InitList ==
    /\ InitLocals
    /\ InitTables("free", 0, NULL, SmallStore)

\* two list calls at a time
NextList ==
    \E p \in Procs :
        \/ \E r \in PageRequests(1..MaxLimit) : BeginList(p, r)
        \/ List(p)
        \/ Return(p)

SpecList == InitList /\ [][NextList]_vars

InitPage ==
    /\ InitLocals
    /\ InitTables("free", 0, NULL, LargeStore)

\* one list call at a time, with limits up to the number of records
NextPage ==
    \/ \E r \in PageRequests({1, NumStored - 1, NumStored}) : BeginList(P1, r)
    \/ List(P1)
    \/ Return(P1)

SpecPage == InitPage /\ [][NextPage]_vars

(***************************************************************************)
(* toggleFavorite called by two requests at a time                         *)
(***************************************************************************)
NextToggle ==
    \E p \in Procs :
        \/ \E id \in Ids, u \in UserIds : BeginToggleFavorite(p, id, u)
        \/ ToggleFind(p)
        \/ ToggleUpdate(p)
        \/ Return(p)

SpecToggle == InitRecords /\ [][NextToggle]_vars

(***************************************************************************)
(* ChatService.sendMessage, getHistory and clearHistory                    *)
(***************************************************************************)
MAX_HISTORY == 10
MaxStored == 12
MaxSends == 1

EmptyChatResponse == "Empty chat response"

Message(explanationId, userId, role, content, created) ==
    [explanation_id |-> explanationId, user_id |-> userId, role |-> role,
     content |-> content, created_at |-> created]

SeedTexts == << "m01", "m02", "m03", "m04", "m05", "m06", "m07", "m08", "m09",
                "m10", "m11", "m12", "m13", "m14" >>

\* n earlier messages of the caller's live record 3, user and assistant in
\* turn, one per millisecond
SeedMessages(n) ==
    [k \in 1..n |-> Message(3, Caller, IF k % 2 = 1 THEN "user" ELSE "assistant",
                            SeedTexts[k], k)]

\* two earlier messages of the caller's record 2, written before the record
\* was soft-deleted
SeedMessagesOfDeleted ==
    << Message(2, Caller, "user", "what is it?", 1),
       Message(2, Caller, "assistant", "A mug", 2) >>

\* positions of the stored messages of one explanation
MessagesOf(explanationId) ==
    { k \in 1..Len(messages) : messages[k].explanation_id = explanationId }

\* orderBy created_at asc; messages of one instant in insertion order
Earliest(S) ==
    CHOOSE k \in S : \A j \in S :
        \/ messages[k].created_at < messages[j].created_at
        \/ messages[k].created_at = messages[j].created_at /\ k <= j

RECURSIVE OldestFirst(_)
OldestFirst(S) ==
    IF S = {} THEN <<>> ELSE <<messages[Earliest(S)]>> \o OldestFirst(S \ {Earliest(S)})

\* take: n
Take(seq, n) == SubSeq(seq, 1, Min(n, Len(seq)))

\* ChatService.getHistory: findMany({ explanation_id }, orderBy created_at
\* asc, take MAX_HISTORY), mapped to { role, content, createdAt }
getHistory(explanationId) ==
    Take(OldestFirst(MessagesOf(explanationId)), MAX_HISTORY)

\* the role and content of a message, as passed to the model
ChatTurn(m) == [role |-> m.role, content |-> m.content]

SendRequests ==
    { [ByUser(u) EXCEPT !.message = "why?"] : u \in UserIds }

\* the sends of a run are bounded
CanSend ==
    /\ usageLog < MaxSends
    /\ Cardinality({ k \in 1..Len(messages) : messages[k].created_at >= StartTime })
            < 2 * MaxSends

\* the provider's answers to a chat request
ChatResponses ==
    { resp \in ProviderResponses :
        /\ resp.content # FencedJson
        /\ resp.retried = (IF resp.outcome = "transient" THEN MAX_RETRIES ELSE 0) }

\* what the chat operations leave alone
RecordVars == <<explanations, storageCalls, deletedOK, objects, http, oddToggles, clientVars>>

ChatFrame == <<now, users, cache, snap, tnow, analysis, newId, cacheFault,
               resetTimes, lastOK>>

\* line 30
BeginSendMessage(p, id, r) ==
    /\ BeginWith(p, "sendMessage", r, id)
    /\ pc' = [pc EXCEPT ![p] = "sendFind"]

\* lines 33-42
SendFind(p) ==
    /\ pc[p] = "sendFind"
    /\ found' = [found EXCEPT ![p] = findFirstOwned(target[p], req[p].userId)]
    /\ IF findFirstOwned(target[p], req[p].userId) = NoRow
       THEN Thrown(p, NotFound)
       ELSE /\ pc' = [pc EXCEPT ![p] = "sendHistory"]
            /\ ret' = ret
    /\ UNCHANGED <<op, req, target, out, pre, overlapped, usageLog, calls, sent,
                   outcome, reply>>
    /\ UNCHANGED <<RecordVars, ChatFrame, ChatVars>>

\* line 45
SendHistory(p) ==
    /\ pc[p] = "sendHistory"
    /\ history' = [history EXCEPT ![p] = getHistory(target[p])]
    /\ pc' = [pc EXCEPT ![p] = "sendSaveUser"]
    /\ UNCHANGED <<op, req, target, found, out, ret, pre, overlapped, usageLog,
                   calls, sent, outcome, reply, context, messages>>
    /\ UNCHANGED <<RecordVars, ChatFrame>>

\* lines 48-55
SendSaveUser(p) ==
    /\ pc[p] = "sendSaveUser"
    /\ messages' = Append(messages, Message(target[p], req[p].userId, "user",
                                            req[p].message, now))
    /\ pc' = [pc EXCEPT ![p] = "sendChat"]
    /\ UNCHANGED <<op, req, target, found, out, ret, pre, overlapped, usageLog,
                   calls, sent, outcome, reply, history, context>>
    /\ UNCHANGED <<RecordVars, ChatFrame>>

\* an assistant message stored whatever the model call gave
AfterChat_StoreAnyway(resp) == "sendSaveAssistant"

\* OpenAIService.chat, lines 158-172: an empty reply throws, a rejected
\* request is rethrown; sendMessage goes on only with a reply in hand
AfterChat(resp) ==
    IF OutcomeOf(resp) = "ok" THEN "sendSaveAssistant" ELSE "done"

\* lines 65-75 and OpenAIService.chat: the history and the new message go to
\* the model; an empty reply or a rejected request leaves sendMessage as an
\* error
SendChat(p, resp) ==
    /\ pc[p] = "sendChat"
    /\ context' = [context EXCEPT ![p] =
            [k \in 1..Len(history[p]) |-> ChatTurn(history[p][k])]
            \o << [role |-> "user", content |-> req[p].message] >>]
    /\ calls' = [calls EXCEPT ![p] = @ + 1]
    /\ sent' = [sent EXCEPT ![p] = @ + resp.retried + 1]
    /\ outcome' = [outcome EXCEPT ![p] = OutcomeOf(resp)]
    /\ reply' = [reply EXCEPT ![p] = resp.content]
    /\ IF AfterChat(resp) = "sendSaveAssistant"
       THEN /\ pc' = [pc EXCEPT ![p] = "sendSaveAssistant"]
            /\ ret' = ret
       ELSE Thrown(p, IF OutcomeOf(resp) = "empty" THEN EmptyChatResponse
                      ELSE ProviderError)
    /\ UNCHANGED <<op, req, target, found, out, pre, overlapped, usageLog,
                   history, messages>>
    /\ UNCHANGED <<RecordVars, ChatFrame>>

\* lines 78-87
SendSaveAssistant(p) ==
    /\ pc[p] = "sendSaveAssistant"
    /\ messages' = Append(messages, Message(target[p], req[p].userId, "assistant",
                                            reply[p].text, now))
    /\ pc' = [pc EXCEPT ![p] = "sendLog"]
    /\ UNCHANGED <<op, req, target, found, out, ret, pre, overlapped, usageLog,
                   calls, sent, outcome, reply, history, context>>
    /\ UNCHANGED <<RecordVars, ChatFrame>>

\* lines 90-110: the usage row is written, the assistant message returned
SendLog(p, writeOk) ==
    /\ pc[p] = "sendLog"
    /\ IF writeOk
       THEN /\ usageLog' = usageLog + 1
            /\ pc' = [pc EXCEPT ![p] = "done"]
            /\ ret' = [ret EXCEPT ![p] = Ok(target[p])]
       ELSE /\ usageLog' = usageLog
            /\ Thrown(p, LogFailed)
    /\ UNCHANGED <<op, req, target, found, out, pre, overlapped, calls, sent,
                   outcome, reply>>
    /\ UNCHANGED <<RecordVars, ChatFrame, ChatVars>>

\* line 121
BeginGetHistory(p, id) ==
    /\ BeginWith(p, "getHistory", NoReq, id)
    /\ pc' = [pc EXCEPT ![p] = "getHistory"]

\* lines 122-133
GetHistory(p) ==
    /\ pc[p] = "getHistory"
    /\ out' = [out EXCEPT ![p] = [NoResult EXCEPT !.data = getHistory(target[p])]]
    /\ ret' = [ret EXCEPT ![p] = Ok(NULL)]
    /\ pc' = [pc EXCEPT ![p] = "done"]
    /\ UNCHANGED <<op, req, target, found, pre, overlapped, usageLog, calls,
                   sent, outcome, reply>>
    /\ UNCHANGED <<RecordVars, ChatFrame, ChatVars>>

\* line 139
BeginClearHistory(p, id, userId) ==
    /\ BeginWith(p, "clearHistory", ByUser(userId), id)
    /\ pc' = [pc EXCEPT ![p] = "clearFind"]

\* lines 141-150
ClearFind(p) ==
    /\ pc[p] = "clearFind"
    /\ found' = [found EXCEPT ![p] = findFirstOwned(target[p], req[p].userId)]
    /\ IF findFirstOwned(target[p], req[p].userId) = NoRow
       THEN Thrown(p, NotFound)
       ELSE /\ pc' = [pc EXCEPT ![p] = "clearDelete"]
            /\ ret' = ret
    /\ UNCHANGED <<op, req, target, out, pre, overlapped, usageLog, calls, sent,
                   outcome, reply>>
    /\ UNCHANGED <<RecordVars, ChatFrame, ChatVars>>

\* prisma.message.deleteMany({ explanation_id })
Without(explanationId) ==
    SelectSeq(messages, LAMBDA m : m.explanation_id # explanationId)

\* lines 152-156
ClearDelete(p) ==
    /\ pc[p] = "clearDelete"
    /\ messages' = Without(target[p])
    /\ ret' = [ret EXCEPT ![p] = Ok(target[p])]
    /\ pc' = [pc EXCEPT ![p] = "done"]
    /\ UNCHANGED <<op, req, target, found, out, pre, overlapped, usageLog,
                   calls, sent, outcome, reply, history, context>>
    /\ UNCHANGED <<RecordVars, ChatFrame>>

(***************************************************************************)
(* The chat operations of both users, one call at a time, on explanations  *)
(* with no, or more than MAX_HISTORY, earlier messages.                    *)
(***************************************************************************)
InitChat ==
    /\ InitLocals
    /\ now = StartTime
    /\ users = [u \in UserIds |-> OtherUser]
    /\ explanations = SubSeq(SeedWithDuplicates, 1, 3)
    /\ usageLog = 0
    /\ cache = <<>>
    /\ resetTimes = <<NULL, NULL>>
    /\ lastOK = <<>>
    /\ \E n \in {0, MaxStored} : messages = SeedMessages(n) \o SeedMessagesOfDeleted
    /\ storageCalls = 0
    /\ deletedOK = {}
    /\ objects = {}
    /\ oddToggles = {}

NextChat ==
    \/ \E id \in Ids, r \in SendRequests : CanSend /\ BeginSendMessage(P1, id, r)
    \/ SendFind(P1)
    \/ SendHistory(P1)
    \/ SendSaveUser(P1)
    \/ \E resp \in ChatResponses : SendChat(P1, resp)
    \/ SendSaveAssistant(P1)
    \/ \E writeOk \in BOOLEAN : SendLog(P1, writeOk)
    \/ \E id \in Ids : BeginGetHistory(P1, id)
    \/ GetHistory(P1)
    \/ \E id \in Ids, u \in UserIds : BeginClearHistory(P1, id, u)
    \/ ClearFind(P1)
    \/ ClearDelete(P1)
    \/ Return(P1)

SpecChat == InitChat /\ [][NextChat]_vars

(***************************************************************************)
(* QueueService: the cleanup worker                                        *)
(***************************************************************************)
DefaultCleanupDays == 90

\* the job data the cleanup queue is given: the daily job scheduled by
\* scheduleRecurringJobs, a job without olderThanDays, a one-day job, and
\* the two job types the worker does nothing for
CleanupJobs ==
    { [type |-> "old_explanations", olderThanDays |-> d] :
            d \in {0, 1, DefaultCleanupDays} }
    \cup { [type |-> t, olderThanDays |-> 0] :
            t \in {"failed_uploads", "expired_sessions"} }

\* job.data.olderThanDays || 90
OlderThanDays(job) ==
    IF job.olderThanDays # 0 THEN job.olderThanDays ELSE DefaultCleanupDays

\* created_at < cutoffDate, where cutoffDate is now minus the given number of
\* days; the comparison is made on whole days and the remainders, which is
\* the same comparison without the product of days and milliseconds
BeforeCutoff(created, days) ==
    LET qc == created \div DayMs
        rc == created % DayMs
        qn == now \div DayMs
        rn == now % DayMs
    IN  \/ qc + days < qn
        \/ qc + days = qn /\ rc < rn

\* where: { created_at: { lt: cutoffDate }, deleted_at: { not: null } }
Expired(job) ==
    { i \in 1..Len(explanations) :
        /\ explanations[i] # NoRow
        /\ BeforeCutoff(explanations[i].created_at, OlderThanDays(job))
        /\ explanations[i].deleted_at # NULL }

\* prisma.explanation.deleteMany: the rows are gone; the table keeps their
\* positions empty, since ids are not reused
DeleteMany(S) ==
    [i \in 1..Len(explanations) |-> IF i \in S THEN NoRow ELSE explanations[i]]

\* lines 244-272: the worker handles one job, while no request is in flight
CleanupWorker(job) ==
    /\ \A p \in Procs : pc[p] = "idle"
    /\ explanations' = IF job.type = "old_explanations"
                       THEN DeleteMany(Expired(job)) ELSE explanations
    /\ UNCHANGED <<pc, op, req, target, found, out, ret, pre, overlapped,
                   storageCalls, deletedOK, objects, http, oddToggles, clientVars>>
    /\ UNCHANGED PipelineVars
    /\ UNCHANGED ChatVars

\* the store of the record operations, with two messages of the caller's
\* live record 3 and two of the soft-deleted record 2
InitCleanup ==
    /\ InitLocals
    /\ now = StartTime
    /\ users = [u \in UserIds |-> OtherUser]
    /\ explanations = SubSeq(SeedWithDuplicates, 1, 3)
    /\ usageLog = 0
    /\ cache = <<>>
    /\ resetTimes = <<NULL, NULL>>
    /\ lastOK = <<>>
    /\ messages = SeedMessages(2) \o SeedMessagesOfDeleted
    /\ storageCalls = 0
    /\ deletedOK = {}
    /\ objects = {}
    /\ oddToggles = {}

NextCleanup ==
    \/ \E id \in Ids, u \in UserIds : CanView /\ BeginGetById(P1, id, u)
    \/ GetByIdFind(P1)
    \/ GetByIdUpdate(P1)
    \/ \E id \in Ids, u \in UserIds : BeginDelete(P1, id, u)
    \/ DeleteFind(P1)
    \/ DeleteUpdate(P1)
    \/ \E removed \in BOOLEAN : DeleteImage(P1, removed)
    \/ \E removed \in BOOLEAN : DeleteThumbnail(P1, removed)
    \/ \E id \in Ids, u \in UserIds : BeginClearHistory(P1, id, u)
    \/ ClearFind(P1)
    \/ ClearDelete(P1)
    \/ \E job \in CleanupJobs : CleanupWorker(job)
    \/ Tick
    \/ Return(P1)

SpecCleanup == InitCleanup /\ [][NextCleanup]_vars

(***************************************************************************)
(* POST /api/v1/explanations: the route handler, StorageService.uploadImage *)
(* and the client-side ImageProcessingService.validateImage                *)
(***************************************************************************)
MAX_FILE_SIZE == 10 * 1024 * 1024
ALLOWED_TYPES == {"image/jpeg", "image/png", "image/webp"}
MinDimension == 50
MaxDimension == 10000

\* an image: the type its data URL declares, what its bytes are, and the
\* hash of its processed form
Image(mimeType, format, width, height, size, corrupt, hash) ==
    [mimeType |-> mimeType, format |-> format, width |-> width,
     height |-> height, size |-> size, corrupt |-> corrupt, hash |-> hash]

GoodImage    == Image("image/png", "png", 100, 100, 1024, FALSE, 2)
KnownImage   == Image("image/jpeg", "jpeg", 100, 100, 1024, FALSE, 1)
TinyImage    == Image("image/png", "png", 10, 10, 1024, FALSE, 3)
WideImage    == Image("image/jpeg", "jpeg", 20000, 100, 1024, FALSE, 4)
GifImage     == Image("image/gif", "gif", 100, 100, 1024, FALSE, 5)
BigImage     == Image("image/png", "png", 100, 100, MAX_FILE_SIZE + 1, FALSE, 6)
CorruptImage == Image("image/png", "unknown", 0, 0, 1024, TRUE, 7)

PostImages == {GoodImage, KnownImage, TinyImage, WideImage, GifImage, BigImage,
               CorruptImage}

\* ImageProcessingService.validateImage
validateImage(img) ==
    IF img.corrupt
    THEN [valid |-> FALSE, error |-> "Invalid or corrupted image file"]
    ELSE IF img.format \notin {"jpeg", "jpg", "png", "webp"}
    THEN [valid |-> FALSE, error |-> "Invalid format"]
    ELSE IF img.width < MinDimension \/ img.height < MinDimension
    THEN [valid |-> FALSE, error |-> "Image too small (minimum 50x50 pixels)"]
    ELSE IF img.width > MaxDimension \/ img.height > MaxDimension
    THEN [valid |-> FALSE, error |-> "Image too large (maximum 10000x10000 pixels)"]
    ELSE IF img.size > 10 * 1024 * 1024
    THEN [valid |-> FALSE, error |-> "File too large (maximum 10MB)"]
    ELSE [valid |-> TRUE, error |-> ""]

\* request bodies: a base64 data URL of an image, a string that starts with
\* data:image and is no base64 data URL, and a string the schema refuses
PostRequests ==
    { [userId |-> Caller, image |-> img, kind |-> "dataUrl", prompt |-> "",
       isDeveloperMode |-> FALSE] : img \in PostImages }
    \cup { [userId |-> Caller, image |-> GoodImage, kind |-> k, prompt |-> "",
            isDeveloperMode |-> FALSE] : k \in {"noBase64", "notImage"} }

InvalidFileType == "Invalid file type"
FileTooLarge == "File too large"
UnsupportedImage == "Input buffer contains unsupported image format"
UploadFailed == "Upload failed"
SchemaError == "ZodError"

\* line 30
InvalidImageResponse == [status |-> 400, body |-> [error |-> "Invalid image"]]
\* lines 96-99
CatchResponse == [status |-> 500, body |-> [error |-> "Internal server error"]]
\* line 84
CreatedResponse(id) == [status |-> 201, body |-> [id |-> id]]

\* the response to an outcome of create and of the analytics and queue calls
\* that follow it: the explanation, or what the catch block answers
ResponseTo(result, servicesOk) ==
    IF result.kind = "ok" /\ servicesOk THEN CreatedResponse(result.id)
    ELSE CatchResponse

\* line 17: a request enters the handler
BeginPost(p, r) ==
    /\ Begin(p, "post", r)
    /\ pc' = [pc EXCEPT ![p] = "postParse"]

\* lines 24-31: the schema, then the data URL pattern
PostParse(p) ==
    /\ pc[p] = "postParse"
    /\ IF req[p].kind = "notImage"
       THEN /\ Thrown(p, SchemaError)
            /\ http' = [http EXCEPT ![p] = [stage |-> "handling", body |-> req[p],
                                            response |-> NoResponse]]
       ELSE IF req[p].kind = "noBase64"
       THEN /\ pc' = [pc EXCEPT ![p] = "done"]
            /\ ret' = ret
            /\ http' = [http EXCEPT ![p] = [stage |-> "responded", body |-> req[p],
                                            response |-> InvalidImageResponse]]
       ELSE /\ pc' = [pc EXCEPT ![p] = "postUpload"]
            /\ ret' = ret
            /\ http' = [http EXCEPT ![p] = [stage |-> "handling", body |-> req[p],
                                            response |-> NoResponse]]
    /\ UNCHANGED <<op, req, target, found, out, pre, overlapped, objects>>
    /\ UNCHANGED <<explanations, storageCalls, deletedOK, oddToggles, clientVars>>
    /\ UNCHANGED PipelineVars
    /\ UNCHANGED ChatVars

\* StorageService.findByHash: a record of the user with that image hash
findByHash(hash, userId) ==
    { i \in 1..Len(explanations) :
        /\ explanations[i].image_hash = hash
        /\ explanations[i].user_id = userId }

\* the two objects one upload writes
StoredObject(userId, img, thumbnail) ==
    [owner |-> userId, url |-> img.hash, thumbnail |-> thumbnail, at |-> now]

\* lines 46-53: the request the handler gives to create
CreateRequestOf(body) ==
    [userId |-> body.userId, imageUrl |-> body.image.hash,
     imageHash |-> body.image.hash, prompt |-> body.prompt,
     isDeveloperMode |-> body.isDeveloperMode, language |-> ""]

\* uploadImage returned: the handler calls create
Uploaded(p) ==
    /\ op' = [op EXCEPT ![p] = "create"]
    /\ req' = [req EXCEPT ![p] = CreateRequestOf(http[p].body)]
    /\ pc' = [pc EXCEPT ![p] = "findDuplicate"]
    /\ ret' = ret

\* uploadImage threw
UploadThrown(p, msg) ==
    /\ Thrown(p, msg)
    /\ UNCHANGED <<op, req>>

\* lines 38-42 and uploadImage: type, size, decoding, deduplication, and the
\* two uploads, each of which stores its object or not
UploadImage(p, imageStored, thumbStored) ==
    /\ pc[p] = "postUpload"
    /\ LET img == http[p].body.image
           userId == http[p].body.userId
       IN  IF img.mimeType \notin ALLOWED_TYPES
           THEN UploadThrown(p, InvalidFileType) /\ objects' = objects
           ELSE IF img.size > MAX_FILE_SIZE
           THEN UploadThrown(p, FileTooLarge) /\ objects' = objects
           ELSE IF img.corrupt
           THEN UploadThrown(p, UnsupportedImage) /\ objects' = objects
           ELSE IF findByHash(img.hash, userId) # {}
           THEN Uploaded(p) /\ objects' = objects
           ELSE /\ objects' = objects
                    \cup (IF imageStored THEN {StoredObject(userId, img, FALSE)} ELSE {})
                    \cup (IF thumbStored THEN {StoredObject(userId, img, TRUE)} ELSE {})
                /\ IF imageStored /\ thumbStored
                   THEN Uploaded(p)
                   ELSE UploadThrown(p, UploadFailed)
    /\ UNCHANGED <<target, found, out, pre, overlapped, http, oddToggles, clientVars>>
    /\ UNCHANGED <<explanations, storageCalls, deletedOK>>
    /\ UNCHANGED PipelineVars
    /\ UNCHANGED ChatVars

\* lines 55-100: create has returned or something has thrown; the analytics
\* and queue calls follow a returned create, and the response is sent
PostRespond(p, servicesOk) ==
    /\ pc[p] = "done"
    /\ http[p].stage = "handling"
    /\ http' = [http EXCEPT ![p].stage = "responded",
                            ![p].response = ResponseTo(ret[p], servicesOk)]
    /\ UNCHANGED <<pc, op, req, ret, target, found, out, pre, overlapped, objects>>
    /\ UNCHANGED <<explanations, storageCalls, deletedOK, oddToggles, clientVars>>
    /\ UNCHANGED PipelineVars
    /\ UNCHANGED ChatVars

\* a free user with an unused or a used-up daily count, whose window ends
\* a millisecond after the start
InitPost ==
    /\ InitLocals
    /\ \E count \in {0, FreeLimit} :
            InitTables("free", count, StartTime + 1, SeedExplanations)

\* the requests of a run are bounded by the records and objects they leave
CanPost == CanRecreate /\ Cardinality(objects) < MaxObjects

NextPost ==
    \/ \E r \in PostRequests : CanPost /\ BeginPost(P1, r)
    \/ PostParse(P1)
    \/ \E imageStored, thumbStored \in BOOLEAN : UploadImage(P1, imageStored, thumbStored)
    \/ FindDuplicate(P1)
    \/ CheckRead(P1)
    \/ CheckNow(P1)
    \/ CheckReset(P1)
    \/ CacheGet(P1, TRUE)
    \/ \E resp \in RecordResponses : Primary(P1, resp)
    \/ SaveToCache(P1, TRUE)
    \/ Insert(P1)
    \/ LogUsage(P1, TRUE)
    \/ UpdateUserStats(P1, TRUE)
    \/ \E servicesOk \in BOOLEAN : PostRespond(P1, servicesOk)
    \/ Tick
    \/ Return(P1)

SpecPost == InitPost /\ [][NextPost]_vars

(***************************************************************************)
(* The route and delete, one call at a time, by one user who starts with   *)
(* no explanation and no stored object.                                    *)
(***************************************************************************)
InitStorage ==
    /\ InitLocals
    /\ InitTables("free", 0, NULL, <<>>)

StorageRequests ==
    { r \in PostRequests : r.kind = "dataUrl" /\ r.image \in {GoodImage, KnownImage} }

NextStorage ==
    \/ \E r \in StorageRequests :
            Cardinality(NewRecords) < MaxNew /\ BeginPost(P1, r)
    \/ PostParse(P1)
    \/ \E imageStored, thumbStored \in BOOLEAN : UploadImage(P1, imageStored, thumbStored)
    \/ FindDuplicate(P1)
    \/ CheckRead(P1)
    \/ CheckNow(P1)
    \/ CheckReset(P1)
    \/ CacheGet(P1, TRUE)
    \/ \E resp \in RecordResponses : Primary(P1, resp)
    \/ SaveToCache(P1, TRUE)
    \/ Insert(P1)
    \/ LogUsage(P1, TRUE)
    \/ UpdateUserStats(P1, TRUE)
    \/ \E servicesOk \in BOOLEAN : PostRespond(P1, servicesOk)
    \/ \E id \in Ids : BeginDelete(P1, id, Caller)
    \/ DeleteFind(P1)
    \/ DeleteUpdate(P1)
    \/ \E removed \in BOOLEAN : DeleteImage(P1, removed)
    \/ \E removed \in BOOLEAN : DeleteThumbnail(P1, removed)
    \/ Return(P1)

SpecStorage == InitStorage /\ [][NextStorage]_vars

(***************************************************************************)
(* rateLimitMiddleware                                                     *)
(***************************************************************************)
RATE_LIMITS ==
    [free |-> [requests |-> 10, window |-> 86400],
     pro  |-> [requests |-> 1000, window |-> 86400],
     dev  |-> [requests |-> 10000, window |-> 86400]]

\* RATE_LIMITS[tier] || RATE_LIMITS.free
RateLimitOf(tier) ==
    IF tier \in DOMAIN RATE_LIMITS THEN RATE_LIMITS[tier] ELSE RATE_LIMITS.free

\* `ratelimit:${user.id}:${Date.now()}`
RateKey(userId, t) == <<"ratelimit", userId, t>>

\* a key redis holds: set, and not past its expiry
Live(key) ==
    /\ key \in DOMAIN cache
    /\ (cache[key].expiresAt = NULL \/ now < cache[key].expiresAt)

\* redis.incr: the value after the increment; a key that is not held counts
\* from zero
Incremented(key) == IF Live(key) THEN cache[key].value + 1 ELSE 1

\* redis.ttl, in seconds: -2 for a key that is not held, -1 for a key
\* without expiry
Ttl(key) ==
    IF ~Live(key) THEN 0 - 2
    ELSE IF cache[key].expiresAt = NULL THEN 0 - 1
    ELSE (cache[key].expiresAt - now) \div 1000

Unauthorized == [status |-> 401, body |-> [error |-> "Unauthorized"]]

\* lines 41-56
TooManyRequests(limit, ttl) ==
    [status |-> 429,
     body |-> [error |-> "Rate limit exceeded", limit |-> limit.requests,
               resetIn |-> ttl],
     headers |-> [Limit |-> limit.requests, Remaining |-> 0,
                  Reset |-> now + ttl * 1000]]

\* lines 59-64: NextResponse.next() with the two headers
Admitted(limit, current) ==
    [status |-> 200, body |-> [error |-> ""],
     headers |-> [Limit |-> limit.requests,
                  Remaining |-> limit.requests - current]]

\* the tier the authenticated user of a request has
TierOf(p) == users[req[p].userId].subscription_tier

\* the increments of the keys redis holds
RECURSIVE Counted(_)
Counted(keys) ==
    IF keys = {} THEN 0
    ELSE LET k == CHOOSE k \in keys : TRUE
         IN  cache[k].value + Counted(keys \ {k})

\* the requests of a user that the keys redis holds have counted
RequestsCounted(userId) ==
    Counted({ k \in DOMAIN cache : Live(k) /\ k[2] = userId })

\* the requests of a run are bounded
CanRequest == Counted(DOMAIN cache) < MaxRateRequests

RateFrame == <<users, usageLog, snap, tnow, analysis, newId, calls, sent,
               outcome, reply, cacheFault, resetTimes, lastOK, explanations,
               storageCalls, deletedOK, objects, oddToggles, clientVars, history, context,
               messages, op, req, target, found, out, pre, overlapped>>

\* line 18: a request reaches the middleware; userId "" is a request
\* without a user
BeginRateLimit(p, userId) ==
    /\ Begin(p, "rateLimit", ByUser(userId))
    /\ pc' = [pc EXCEPT ![p] = "rateIncr"]

\* the middleware answers
Respond(p, response) ==
    /\ http' = [http EXCEPT ![p] = [stage |-> "responded", body |-> http[p].body,
                                    response |-> response]]
    /\ pc' = [pc EXCEPT ![p] = "done"]

\* lines 21-33: the user, the key of this instant and its increment
RateIncr(p) ==
    /\ pc[p] = "rateIncr"
    /\ IF req[p].userId = ""
       THEN Respond(p, Unauthorized) /\ cache' = cache
       ELSE LET key == RateKey(req[p].userId, now)
                current == Incremented(key)
                limit == RateLimitOf(TierOf(p))
            IN  /\ cache' = (key :> [value |-> current,
                                     expiresAt |-> IF Live(key) THEN cache[key].expiresAt
                                                   ELSE NULL]) @@ cache
                /\ IF current = 1
                   THEN /\ pc' = [pc EXCEPT ![p] = "rateExpire"]
                        /\ http' = [http EXCEPT ![p] =
                                        [stage |-> "limiting",
                                         body |-> [key |-> key, current |-> current],
                                         response |-> NoResponse]]
                   ELSE IF current > limit.requests
                   THEN /\ pc' = [pc EXCEPT ![p] = "rateTtl"]
                        /\ http' = [http EXCEPT ![p] =
                                        [stage |-> "limiting",
                                         body |-> [key |-> key, current |-> current],
                                         response |-> NoResponse]]
                   ELSE /\ pc' = [pc EXCEPT ![p] = "done"]
                        /\ http' = [http EXCEPT ![p] =
                                        [stage |-> "responded",
                                         body |-> [key |-> key, current |-> current],
                                         response |-> Admitted(limit, current)]]
    /\ UNCHANGED <<now, ret>>
    /\ UNCHANGED RateFrame

\* lines 35-37 and 59-64: the first request of a key sets its expiry, and
\* is admitted
RateExpire(p) ==
    /\ pc[p] = "rateExpire"
    /\ LET key == http[p].body.key
           limit == RateLimitOf(TierOf(p))
       IN  /\ cache' = IF Live(key)
                       THEN [cache EXCEPT ![key].expiresAt = now + limit.window * 1000]
                       ELSE cache
           /\ IF http[p].body.current > limit.requests
              THEN /\ pc' = [pc EXCEPT ![p] = "rateTtl"]
                   /\ http' = http
              ELSE Respond(p, Admitted(limit, http[p].body.current))
    /\ UNCHANGED <<now, ret>>
    /\ UNCHANGED RateFrame

\* lines 39-57
RateTtl(p) ==
    /\ pc[p] = "rateTtl"
    /\ Respond(p, TooManyRequests(RateLimitOf(TierOf(p)), Ttl(http[p].body.key)))
    /\ UNCHANGED <<now, ret, cache>>
    /\ UNCHANGED RateFrame

\* a millisecond passes
TickMs ==
    /\ now < StartTime + MaxMs
    /\ now' = now + 1
    /\ UNCHANGED <<pc, ret, cache, http>>
    /\ UNCHANGED RateFrame

\* a window passes
TickWindow ==
    /\ now < StartTime + RATE_LIMITS.free.window * 1000
    /\ now' = now + RATE_LIMITS.free.window * 1000
    /\ UNCHANGED <<pc, ret, cache, http>>
    /\ UNCHANGED RateFrame

\* StripeService.PRICE_IDS, and a price that is none of them
PriceIds == {"pro_monthly", "pro_yearly", "developer_monthly",
             "developer_yearly", "other"}

\* StripeService.getTierFromPriceId
getTierFromPriceId(priceId) ==
    IF priceId \in {"pro_monthly", "pro_yearly"} THEN "pro"
    ELSE IF priceId \in {"developer_monthly", "developer_yearly"} THEN "developer"
    ELSE "free"

\* the user table with a tier written to one row
WithTier(userId, tier) ==
    [users EXCEPT ![userId].subscription_tier = tier]

\* handleSubscriptionUpdated: the tier of the subscription's price is
\* written to the user row, between two requests
SubscriptionUpdated(userId, priceId) ==
    /\ \A p \in Procs : pc[p] = "idle"
    /\ users' = WithTier(userId, getTierFromPriceId(priceId))
    /\ UNCHANGED <<now, pc, ret, cache, http, usageLog, snap, tnow, analysis,
                   newId, calls, sent, outcome, reply, cacheFault, resetTimes,
                   lastOK, explanations, storageCalls, deletedOK, objects,
                   oddToggles, clientVars, history, context, messages, op, req, target,
                   found, out, pre, overlapped>>

InitRate ==
    /\ InitLocals
    /\ InitTables("free", 0, NULL, SeedExplanations)

\* one request at a time, of the free user or of nobody
NextRate ==
    \/ \E u \in {Caller, ""} : CanRequest /\ BeginRateLimit(P1, u)
    \/ RateIncr(P1)
    \/ RateExpire(P1)
    \/ RateTtl(P1)
    \/ \E priceId \in PriceIds : SubscriptionUpdated(Caller, priceId)
    \/ TickMs
    \/ TickWindow
    \/ Return(P1)

SpecRate == InitRate /\ [][NextRate]_vars

(***************************************************************************)
(* APIClient: the interceptors and refreshToken; useOfflineStore           *)
(***************************************************************************)
serverVars == <<now, users, explanations, usageLog, cache, pc, op, req, snap, tnow,
                analysis, newId, ret, calls, sent, outcome, reply, pre, overlapped,
                cacheFault, resetTimes, lastOK, target, found, out, history,
                context, messages, storageCalls, deletedOK, objects, http,
                oddToggles>>

\* a caller hands a request to the client
Call(r) ==
    /\ requests[r].stage = "idle"
    /\ requests' = [requests EXCEPT ![r].stage = "request"]
    /\ UNCHANGED <<session, refreshPromise, posts, issued, isConnected, offline,
                   appended, processed, lastRun, serverVars>>

\* useOfflineStore.addToQueue: the id is made of the time and a random
\* number, here the number of the call
addToQueue(queue, url) == Append(queue, [id |-> Len(appended) + 1, url |-> url])

\* the request has been rejected to its caller
Rejected(request, error) ==
    [request EXCEPT !.stage = "done", !.result = "rejected", !.error = error]

\* The request interceptor, after `await NetInfo.fetch()`.  Offline, the
\* request is queued and the interceptor throws; the response interceptor's
\* error handler receives an error without response and rejects with it.
\* Online, the header is set from the session the store holds at this moment.
RequestInterceptor(r) ==
    /\ requests[r].stage = "request"
    /\ IF ~isConnected
       THEN /\ offline' = [offline EXCEPT !.queue = addToQueue(@, r)]
            /\ appended' = Append(appended, r)
            /\ requests' = [requests EXCEPT ![r] = Rejected(@, NoConnection)]
       ELSE /\ requests' = [requests EXCEPT
                              ![r].stage = "sent",
                              ![r].authorization =
                                    IF session # NoSession
                                    THEN session.access_token ELSE @,
                              ![r].sends = @ + 1]
            /\ UNCHANGED <<offline, appended>>
    /\ UNCHANGED <<session, refreshPromise, posts, issued, isConnected,
                   processed, lastRun, serverVars>>

\* every call of refreshToken sends its own request
Joins_Never(promise) == FALSE

\* refreshToken, lines 106-108: a promise is there to be returned
Joins(promise) == promise # "null"

\* The response interceptor.  A 401 on a request not yet retried calls
\* refreshToken: with a pending promise the request waits for it; a promise
\* already rejected rejects the await at once, and so does a session without
\* refresh token, whose promise is rejected before the first await and is
\* stored in refreshPromise by the assignment of line 110, after the finally
\* block has run; otherwise the refresh request is sent.
Response(r, status) ==
    /\ requests[r].stage = "sent"
    /\ IF status = 200
       THEN /\ requests' = [requests EXCEPT ![r].stage = "done",
                                             ![r].result = "resolved"]
            /\ UNCHANGED <<session, refreshPromise, posts>>
       ELSE IF status = 401 /\ ~requests[r].retry
       THEN IF Joins(refreshPromise)
            THEN IF refreshPromise = "pending"
                 THEN /\ requests' = [requests EXCEPT ![r].stage = "awaitRefresh",
                                                       ![r].retry = TRUE,
                                                       ![r].joined = TRUE]
                      /\ UNCHANGED <<session, refreshPromise, posts>>
                 ELSE /\ requests' = [requests EXCEPT
                                        ![r] = Rejected([@ EXCEPT !.retry = TRUE],
                                                        RefreshFailed)]
                      /\ session' = NoSession
                      /\ UNCHANGED <<refreshPromise, posts>>
            ELSE IF ~session.refresh_token
            THEN /\ requests' = [requests EXCEPT
                                   ![r] = Rejected([@ EXCEPT !.retry = TRUE],
                                                   RefreshFailed)]
                 /\ refreshPromise' = "rejected"
                 /\ session' = NoSession
                 /\ posts' = posts
            ELSE /\ requests' = [requests EXCEPT ![r].stage = "awaitRefresh",
                                                  ![r].retry = TRUE]
                 /\ refreshPromise' = "pending"
                 /\ posts' = posts + 1
                 /\ session' = session
       ELSE /\ requests' = [requests EXCEPT ![r] = Rejected(@, StatusError)]
            /\ UNCHANGED <<session, refreshPromise, posts>>
    /\ UNCHANGED <<issued, isConnected, offline, appended, processed, lastRun,
                   serverVars>>

Waiting == { r \in Requests : requests[r].stage = "awaitRefresh" }

\* The refresh request is answered (lines 117-133) and the requests that
\* await the promise go on (lines 79-91): with the new token each one sets
\* its header and calls this.client again; after a failure each one signs the
\* user out and rejects.
RefreshResponse(ok) ==
    /\ posts > 0
    /\ posts' = posts - 1
    /\ refreshPromise' = "null"
    /\ IF ok
       THEN /\ issued' = issued + 1
            /\ session' = [access_token |-> issued + 1, refresh_token |-> TRUE]
            /\ requests' = [r \in Requests |->
                              IF r \in Waiting
                              THEN [requests[r] EXCEPT !.stage = "request",
                                                       !.authorization = issued + 1,
                                                       !.newToken = issued + 1]
                              ELSE requests[r]]
       ELSE /\ issued' = issued
            /\ session' = IF Waiting # {} THEN NoSession ELSE session
            /\ requests' = [r \in Requests |->
                              IF r \in Waiting
                              THEN Rejected(requests[r], RefreshFailed)
                              ELSE requests[r]]
    /\ UNCHANGED <<isConnected, offline, appended, processed, lastRun, serverVars>>

\* every request stays in the queue
processQueue_KeepAll(queue, isOnline, failed) == queue

\* useOfflineStore.processQueue: the function has no await and runs to its
\* end within the call.  `failed` holds the ids whose try block throws; the
\* others are removed by removeFromQueue(id).
processQueue(queue, isOnline, failed) ==
    IF ~isOnline \/ Len(queue) = 0 THEN queue
    ELSE SelectSeq(queue, LAMBDA q : q.id \in failed)

QueueIds(queue) == { queue[k].id : k \in 1..Len(queue) }

IdsOf(queue) == [k \in 1..Len(queue) |-> queue[k].id]

\* the requests a run handled without error, in the order of the loop
Succeeded(queue, failed) == SelectSeq(queue, LAMBDA q : q.id \notin failed)

\* NetInfo's listener: setOnline(state.isConnected), which calls processQueue
\* when the device is online
SetOnline(failed) ==
    /\ failed \subseteq QueueIds(offline.queue)
    /\ isConnected \/ failed = {}
    /\ offline' = [isOnline |-> isConnected,
                   queue |-> IF isConnected
                             THEN processQueue(offline.queue, isConnected, failed)
                             ELSE offline.queue]
    /\ IF isConnected /\ Len(offline.queue) > 0
       THEN /\ processed' = processed \o IdsOf(Succeeded(offline.queue, failed))
            /\ lastRun' = [found |-> offline.queue, failed |-> failed,
                           left |-> processQueue(offline.queue, isConnected, failed)]
       ELSE UNCHANGED <<processed, lastRun>>
    /\ UNCHANGED <<session, refreshPromise, requests, posts, issued, isConnected,
                   appended, serverVars>>

\* the device loses or regains its connection
ConnectivityChange ==
    /\ isConnected' = ~isConnected
    /\ UNCHANGED <<session, refreshPromise, requests, posts, issued, offline,
                   appended, processed, lastRun, serverVars>>

NextClient ==
    \/ \E r \in Requests : Call(r)
    \/ \E r \in Requests : RequestInterceptor(r)
    \/ \E r \in Requests : \E status \in {200, 401, 500} : Response(r, status)
    \/ \E ok \in BOOLEAN : RefreshResponse(ok)
    \/ \E failed \in SUBSET (1..MaxRequests) : SetOnline(failed)
    \/ ConnectivityChange

SpecClient == InitAnalyze /\ [][NextClient]_vars

\* the client with connectivity changes, against a server that accepts the
\* token or fails
NextOffline ==
    \/ \E r \in Requests : Call(r)
    \/ \E r \in Requests : RequestInterceptor(r)
    \/ \E r \in Requests : \E status \in {200, 500} : Response(r, status)
    \/ \E failed \in SUBSET (1..MaxRequests) : SetOnline(failed)
    \/ ConnectivityChange

SpecOffline == InitAnalyze /\ [][NextOffline]_vars

(***************************************************************************)
(* parseResponse applied by analyzeImage to each kind of reply text.       *)
(***************************************************************************)
ParserResponses ==
    { [outcome |-> "ok", content |-> text, total_tokens |-> 0, retried |-> 0] :
        text \in ParserInputs }

NextParse ==
    \/ \E a \in AnalyzeRequests : BeginAnalyze(P1, a)
    \/ CacheGet(P1, TRUE)
    \/ \E resp \in ParserResponses : Primary(P1, resp)
    \/ SaveToCache(P1, TRUE)
    \/ Return(P1)

SpecParse == InitAnalyze /\ [][NextParse]_vars

(***************************************************************************)
(* analyzeImage over every kind of reply text, with the fallback request   *)
(* after a rejected primary request.                                       *)
(***************************************************************************)
ConfidenceResponses ==
    { resp \in ParserResponses :
        resp.content \in {RawText, FencedJson, NegativeJson, BareJson} }
    \cup { resp \in CreateResponses : resp.outcome = "bad_request" }

NextConfidence ==
    \/ \E a \in AnalyzeRequests : a.prompt = "" /\ BeginAnalyze(P1, a)
    \/ CacheGet(P1, TRUE)
    \/ \E resp \in ConfidenceResponses : Primary(P1, resp)
    \/ SaveToCache(P1, TRUE)
    \/ \E resp \in CreateResponses : Fallback(P1, resp)
    \/ Return(P1)
    \/ TickTtl

SpecConfidence == InitAnalyze /\ [][NextConfidence]_vars

(***************************************************************************)
(* Properties                                                              *)
(***************************************************************************)
CallerRow == users[Caller]

Finished(p) == pc[p] = "done" /\ op[p] = "create"

\* the call ran with no other request active; pre[p] holds the tables it found
Alone(p) == Finished(p) /\ ~overlapped[p]

EntryRow(p) == pre[p].users[Caller]

LiveSameImage(tbl, userId, imageHash) ==
    { i \in 1..Len(tbl) : /\ tbl[i].user_id = userId
                          /\ tbl[i].image_hash = imageHash
                          /\ tbl[i].deleted_at = NULL }

MostRecent(tbl, S) == { i \in S : \A j \in S : tbl[j].created_at <= tbl[i].created_at }

EntryDuplicates(p) ==
    LiveSameImage(pre[p].explanations, req[p].userId, req[p].imageHash)

\* C1: in every reachable state, whatever the interleaving of the caller's
\* concurrent create calls, a user's daily usage count is at most the daily
\* limit of the user's tier (free 10, pro 1000, developer 10000).
C1_CountWithinLimit ==
    \A u \in UserIds :
        users[u].daily_usage_count <=
            (CASE users[u].subscription_tier = "free" -> 10
               [] users[u].subscription_tier = "pro" -> 1000
               [] users[u].subscription_tier = "developer" -> 10000)

\* C2: a create that does not overlap another call and whose image hash is
\* that of a live explanation of the same user returns the id of the most
\* recently created such record, sends no provider request, inserts nothing
\* and leaves the user rows (daily count, lifetime total) and every record
\* (view counter included) as they were - also with the count at the limit.
C2_DuplicateShortCircuit ==
    \A p \in Procs :
        (Alone(p) /\ EntryDuplicates(p) # {}) =>
            /\ ret[p].kind = "ok"
            /\ ret[p].id \in MostRecent(pre[p].explanations, EntryDuplicates(p))
            /\ calls[p] = 0
            /\ newId[p] = NULL
            /\ explanations = pre[p].explanations
            /\ users = pre[p].users

\* a duplicate of image 2 was returned to a caller whose count is at the limit
C2_Witness ==
    \E p \in Procs :
        /\ Alone(p)
        /\ req[p].imageHash = 2
        /\ ret[p] = Ok(4)
        /\ EntryRow(p).daily_usage_count >= LimitOf(EntryRow(p).subscription_tier)

\* the latest provider request of the call was rejected with an error
ProviderFailed(p) == outcome[p] \in {"bad_request", "transient"}

\* C3: when the provider request of create is rejected (and, if the fallback
\* was taken, the fallback request too), create returns an error, has
\* inserted no record and written no usage row, and neither the daily count
\* nor the lifetime total has been incremented.
C3_FailedAnalysisIsFree ==
    \A p \in Procs :
        (Finished(p) /\ ProviderFailed(p)) =>
            /\ ret[p].kind = "error"
            /\ newId[p] = NULL
            /\ ~overlapped[p] =>
                /\ explanations = pre[p].explanations
                /\ CallerRow.total_explanations = EntryRow(p).total_explanations
                /\ CallerRow.daily_usage_count <= EntryRow(p).daily_usage_count

\* a create whose primary request and fallback request were both rejected
C3_Witness ==
    \E p \in Procs :
        /\ Alone(p)
        /\ calls[p] = 2
        /\ outcome[p] = "transient"
        /\ ret[p] = Err(FallbackFailed)

\* C4: a free-tier user starts with count 0 and stays within one window; each
\* create carries a new image.  While fewer than 10 creations have succeeded
\* a create whose analysis succeeds succeeds; once 10 have succeeded the next
\* create fails with QuotaExceeded.
C4_TenThenQuota ==
    \A p \in Procs :
        Finished(p) =>
            /\ (pre[p].total < 10 /\ outcome[p] = "ok") =>
                    (ret[p].kind = "ok" /\ newId[p] # NULL)
            /\ pre[p].total >= 10 => ret[p] = Err(QuotaExceeded)
            /\ pre[p].total = Cardinality(NewRecords \ {newId[p]})

\* the 11th create, after 10 successful ones, was rejected
C4_Witness ==
    \E p \in Procs :
        /\ Finished(p)
        /\ pre[p].total = 10
        /\ Cardinality(NewRecords) = 10
        /\ ret[p] = Err(QuotaExceeded)

\* C5: when the quota check evaluates a row whose resetAt lies strictly
\* before the check's `now`, it does not reject the call but writes the
\* reset: that write sets the daily count to 0 and resetAt to now + 24h, and
\* the call goes on to the analysis - whatever the stored count was.
C5_ExpiredWindowResets ==
    [][\A p \in Procs :
         /\ ( /\ pc[p] = "checkNow" /\ pc'[p] # "checkNow"
              /\ snap[p].daily_usage_reset_at # NULL
              /\ snap[p].daily_usage_reset_at < now )
            => (pc'[p] = "checkReset" /\ ret'[p].kind = "none")
         /\ (pc[p] = "checkReset" /\ pc'[p] # "checkReset")
            => /\ users'[req[p].userId].daily_usage_count = 0
               /\ users'[req[p].userId].daily_usage_reset_at = tnow[p] + DayMs
               /\ pc'[p] = "cacheGet"
               /\ ret'[p].kind = "none"]_vars

\* a request that read a count at the limit in an expired window has passed
\* the check; the row holds count 0 and the new window
C5_Witness ==
    \E p \in Procs :
        /\ pc[p] = "cacheGet" /\ op[p] = "create"
        /\ snap[p].daily_usage_reset_at # NULL
        /\ snap[p].daily_usage_reset_at < tnow[p]
        /\ snap[p].daily_usage_count >= LimitOf(snap[p].subscription_tier)
        /\ CallerRow.daily_usage_count = 0
        /\ CallerRow.daily_usage_reset_at = tnow[p] + DayMs

\* C6: a create rejected with QuotaExceeded read a count at or above the
\* tier's limit in a window that had not expired, has sent no provider
\* request and inserted no record, and - no other request being active - has
\* left the user rows (daily count, resetAt, lifetime total), the records,
\* the usage log and the cache as they were.
C6_RejectionLeavesNoTrace ==
    \A p \in Procs :
        (Finished(p) /\ ret[p] = Err(QuotaExceeded)) =>
            /\ snap[p].daily_usage_count >= LimitOf(snap[p].subscription_tier)
            /\ snap[p].daily_usage_reset_at >= tnow[p]
            /\ calls[p] = 0
            /\ outcome[p] = "none"
            /\ newId[p] = NULL
            /\ ~overlapped[p] =>
                /\ users = pre[p].users
                /\ explanations = pre[p].explanations

\* a request running alone was rejected with QuotaExceeded
C6_Witness ==
    \E p \in Procs :
        /\ Alone(p)
        /\ ret[p] = Err(QuotaExceeded)
        /\ EntryRow(p).daily_usage_count >= LimitOf(EntryRow(p).subscription_tier)

\* C7: once create has inserted its record, the call succeeds whatever
\* happens to the usage-log write and the analytics event, and the user's
\* daily and lifetime counters are incremented exactly once for the record.
C7_CommittedRecordIsCounted ==
    \A p \in Procs :
        (Finished(p) /\ newId[p] # NULL) =>
            /\ ret[p] = Ok(newId[p])
            /\ ~overlapped[p] =>
                /\ CallerRow.total_explanations = EntryRow(p).total_explanations + 1
                /\ CallerRow.daily_usage_count \in
                        {EntryRow(p).daily_usage_count + 1, 1}

\* C8: two creates of one user with different images that ran at the same
\* time (each entered before the other was counted) and both succeeded leave,
\* once both have finished, a daily count of at least 2 and a lifetime total
\* grown by 2 - also when the window had expired before both entered.
C8_BothCounted ==
    ( /\ Finished("p1") /\ Finished("p2")
      /\ ret["p1"] = Ok(newId["p1"]) /\ ret["p2"] = Ok(newId["p2"])
      /\ newId["p1"] # NULL /\ newId["p2"] # NULL
      /\ req["p1"].imageHash # req["p2"].imageHash
      /\ pre["p1"].total = pre["p2"].total
      /\ pre["p1"].now = now /\ pre["p2"].now = now )
    => /\ CallerRow.daily_usage_count >= 2
       /\ CallerRow.total_explanations = pre["p1"].total + 2

\* C9: any two resets of a user's daily counter are at least 24 hours apart.
C9_ResetsADayApart ==
    (resetTimes[1] # NULL /\ resetTimes[2] # NULL)
        => resetTimes[2] - resetTimes[1] >= 24 * 60 * 60 * 1000

\* C10: once an analyze call has returned a result that a provider request
\* (primary or fallback) produced, and no cache operation has failed, a later
\* analyze call with the same image, prompt, mode and language inside the
\* 7-day lifetime does not get as far as a provider request, and what it
\* returns from the cache is that result.
C10_SecondCallServedFromCache ==
    \A p \in Procs :
        (op[p] = "analyze" /\ CacheKeyOf(p) \in DOMAIN lastOK /\ ~cacheFault[p]) =>
            /\ ( /\ pc[p] \in {"primary", "saveToCache", "fallback"}
                 /\ ~lastOK[CacheKeyOf(p)].fault )
               => now >= lastOK[CacheKeyOf(p)].at + 7 * 24 * 60 * 60 * 1000
            /\ ( /\ pc[p] = "done" /\ calls[p] = 0 /\ ret[p].kind = "ok"
                 /\ ~lastOK[CacheKeyOf(p)].fault )
               => analysis[p] = lastOK[CacheKeyOf(p)].value

\* C11: one analyze call sends at most two requests to the provider; the
\* fallback request is sent only after the primary request was rejected as a
\* bad request (HTTP 400); after a timeout, 5xx or rate-limit error nothing
\* is sent again and the call ends with an error.
C11_AtMostTwoRequests ==
    \A p \in Procs :
        op[p] = "analyze" =>
            /\ sent[p] <= 2
            /\ pc[p] = "fallback" => outcome[p] = "bad_request"
            /\ (pc[p] = "done" /\ outcome[p] = "transient") => ret[p].kind = "error"

\* C12: a cache failure never costs the caller the analysis.  When the cache
\* read fails, analyze goes on to the provider as after a miss, also when
\* the cache holds the entry; when the cache write fails, analyze returns
\* the result the provider request produced, not an error.
C12_CacheFailuresSwallowed ==
    [][\A p \in Procs :
         /\ (pc[p] = "cacheGet" /\ ~cacheFault[p] /\ cacheFault'[p])
            => (pc'[p] = "primary" /\ ret'[p].kind = "none" /\ sent'[p] = 0)
         /\ (pc[p] = "saveToCache" /\ cacheFault'[p] /\ pc'[p] # "saveToCache")
            => /\ analysis'[p] = analysis[p]
               /\ \E resp \in ProviderResponses :
                        resp.outcome = "ok" /\ analysis[p] = PrimaryResult(resp)
               /\ op[p] = "analyze" => (pc'[p] = "done" /\ ret'[p].kind = "ok")
               /\ op[p] = "create" => (pc'[p] = "insert" /\ ret'[p].kind = "none")]_vars

\* an analyze call returned a provider result that differs from the live
\* cache entry of its key: its read failed, and so did its write
C12_Witness ==
    \E p \in Procs :
        /\ op[p] = "analyze" /\ pc[p] = "done" /\ ret[p].kind = "ok"
        /\ cacheFault[p] /\ calls[p] = 1
        /\ CacheHit(CacheKeyOf(p))
        /\ analysis[p] # JSONparse(cache[CacheKeyOf(p)].value)

\* C13: for every non-empty reply text the parser returns a result and
\* analyze does not fail; when the text the parser hands to JSON.parse (the
\* inside of the fenced block, or the whole reply without one) is not JSON,
\* the result is explanation = the raw reply text, category "other", no tags
\* and confidence 0.7.
C13_ParserNeverThrows ==
    \A p \in Procs :
        (pc[p] \in {"saveToCache", "done"} /\ calls[p] = 1 /\ reply[p].text # "")
        => /\ ret[p].kind # "error"
           /\ ~reply[p].json.valid =>
                /\ analysis[p].explanation = reply[p].text
                /\ analysis[p].category = "other"
                /\ analysis[p].tags = <<>>
                /\ analysis[p].confidence = 7

\* a fenced block that is not JSON has been parsed and returned
C13_Witness ==
    \E p \in Procs :
        /\ pc[p] = "done" /\ calls[p] = 1 /\ ret[p].kind = "ok"
        /\ reply[p].fence /\ ~reply[p].json.valid
        /\ analysis[p].confidence = 7

\* the ids on the page a list call returned
Listed(p) == { out[p].data[k] : k \in 1..Len(out[p].data) }

\* C14: once delete(id, owner) has returned without error, in every later
\* state the record carries a deletion timestamp, no list call returns it,
\* findDuplicate does not return it for any user and image (so a later create
\* of the owner with the same image returns another record), and
\* getById(id, owner) returns null, not an error.
C14_DeletedStaysHidden ==
    \A id \in deletedOK :
        /\ explanations[id].deleted_at # NULL
        /\ \A u \in UserIds, h \in Images : id \notin findDuplicate(u, h)
        /\ \A p \in Procs :
            /\ (op[p] = "list" /\ pc[p] = "done") => id \notin Listed(p)
            /\ (op[p] = "create" /\ pc[p] = "done" /\ ret[p].kind = "ok")
                    => ret[p].id # id
            /\ (op[p] = "getById" /\ pc[p] = "done" /\ target[p] = id)
                    => ret[p] = Ok(NULL)

\* after its record of an image was deleted, the owner's create with the
\* same image has inserted a new record
C14_Witness ==
    \E p \in Procs : \E id \in deletedOK :
        /\ op[p] = "create" /\ pc[p] = "done" /\ ret[p].kind = "ok"
        /\ newId[p] # NULL /\ newId[p] # id
        /\ req[p].userId = explanations[id].user_id
        /\ req[p].imageHash = explanations[id].image_hash

\* the record a call was given, as the store held it when the call began
EntryTarget(p) ==
    IF target[p] \in 1..Len(pre[p].explanations)
    THEN pre[p].explanations[target[p]] ELSE NoRow

\* the call's (id, userId) pair resolved to a record of that user
EntryOwned(p) == EntryTarget(p) # NoRow /\ EntryTarget(p).user_id = req[p].userId

\* ... and to one that is not soft-deleted
EntryLive(p) == EntryOwned(p) /\ EntryTarget(p).deleted_at = NULL

\* C15: a toggleFavorite(id, userId) whose record is not owned by userId or
\* is soft-deleted ends with NotFound and leaves every record as it was.
C15_ToggleNeedsLiveOwned ==
    \A p \in Procs :
        (op[p] = "toggleFavorite" /\ pc[p] = "done" /\ ~overlapped[p]
         /\ ~EntryLive(p))
        => /\ ret[p] = Err("Explanation not found")
           /\ explanations = pre[p].explanations

\* C16: a delete(id, userId) whose record is not owned by userId or is
\* already soft-deleted ends with NotFound; the record's deletion timestamp
\* (like every other record) is as it was and no storage deletion was issued.
C16_DeleteNeedsLiveOwned ==
    \A p \in Procs :
        (op[p] = "delete" /\ pc[p] = "done" /\ ~overlapped[p] /\ ~EntryLive(p))
        => /\ ret[p] = Err("Explanation not found")
           /\ explanations = pre[p].explanations
           /\ storageCalls = pre[p].storageCalls

C17_ChatNeedsLiveOwned ==
    \A p \in Procs :
        (op[p] \in {"sendMessage", "clearHistory"} /\ pc[p] = "done"
         /\ ~overlapped[p] /\ ~EntryLive(p))
        => /\ ret[p] = Err("Explanation not found")
           /\ messages = pre[p].messages
           /\ calls[p] = 0

\* positions in a message table of the messages of one explanation
StoredOf(tbl, explanationId) ==
    { k \in 1..Len(tbl) : tbl[k].explanation_id = explanationId }

\* the position, among S, of the message created first
First(tbl, S) ==
    CHOOSE k \in S : \A j \in S :
        \/ tbl[k].created_at < tbl[j].created_at
        \/ tbl[k].created_at = tbl[j].created_at /\ k <= j

RECURSIVE InOrder(_, _)
InOrder(tbl, S) ==
    IF S = {} THEN <<>>
    ELSE << [role |-> tbl[First(tbl, S)].role,
             content |-> tbl[First(tbl, S)].content] >>
         \o InOrder(tbl, S \ {First(tbl, S)})

\* the last n elements of a sequence
LastN(seq, n) == SubSeq(seq, Max(1, Len(seq) - n + 1), Len(seq))

\* C19: when sendMessage finds more than 10 stored messages of its
\* explanation, what it passes to the model is the 10 most recently created
\* of them, oldest first, followed by the new user message.
C19_ContextIsLatestTen ==
    \A p \in Procs :
        (op[p] = "sendMessage" /\ calls[p] = 1 /\ ~overlapped[p]
         /\ Cardinality(StoredOf(pre[p].messages, target[p])) > 10)
        => context[p] =
             LastN(InOrder(pre[p].messages, StoredOf(pre[p].messages, target[p])), 10)
             \o << [role |-> "user", content |-> req[p].message] >>

\* C20: getHistory returns every stored message of the explanation, oldest
\* first, however many are stored (14 after a successful sendMessage on an
\* explanation with 12).
C20_HistoryIsComplete ==
    \A p \in Procs :
        (op[p] = "getHistory" /\ pc[p] = "done" /\ ~overlapped[p])
        => /\ Len(out[p].data) = Cardinality(StoredOf(messages, target[p]))
           /\ [k \in 1..Len(out[p].data) |->
                    [role |-> out[p].data[k].role, content |-> out[p].data[k].content]]
              = InOrder(messages, StoredOf(messages, target[p]))

\* C21: when sendMessage calls the model its user message is already stored;
\* if the model call is rejected or returns an empty reply, sendMessage ends
\* with an error, the user message is still stored and no assistant message
\* has been stored.
C21_UserMessageKept ==
    \A p \in Procs :
        (op[p] = "sendMessage" /\ ~overlapped[p]) =>
            /\ pc[p] = "sendChat" =>
                  messages = Append(pre[p].messages,
                                    Message(target[p], req[p].userId, "user",
                                            req[p].message, pre[p].now))
            /\ (pc[p] = "done" /\ calls[p] = 1 /\ outcome[p] # "ok") =>
                  /\ ret[p].kind = "error"
                  /\ messages = Append(pre[p].messages,
                                       Message(target[p], req[p].userId, "user",
                                               req[p].message, pre[p].now))

\* a sendMessage whose model call returned an empty reply has failed
C21_Witness ==
    \E p \in Procs :
        /\ op[p] = "sendMessage" /\ pc[p] = "done" /\ calls[p] = 1
        /\ outcome[p] = "empty" /\ ret[p] = Err(EmptyChatResponse)
        /\ Len(messages) = Len(pre[p].messages) + 1
        /\ messages[Len(messages)].role = "user"

\* C22: a record that is in the store is in the store in every later state:
\* no step removes a record or changes its id.
C22_RecordsNeverRemoved ==
    [][\A i \in 1..Len(explanations) :
         explanations[i].id = i =>
            (Len(explanations') >= i /\ explanations'[i].id = i)]_vars

\* C23: when delete has succeeded no message of the deleted explanation is
\* stored, and when clearHistory has succeeded no message of its explanation
\* is stored.
C23_NoMessagesRemain ==
    \A p \in Procs :
        (op[p] \in {"delete", "clearHistory"} /\ pc[p] = "done"
            /\ ret[p].kind = "ok" /\ ~overlapped[p])
        => StoredOf(messages, target[p]) = {}

\* C24: while a creation request whose image fails validation is handled,
\* no storage object is written, no record is created, no provider request
\* is sent and the user's quota is unchanged, and its response is not 201.
C24_InvalidImageNoEffects ==
    [][\A p \in Procs :
         (http[p].stage = "handling" /\ ~validateImage(http[p].body.image).valid)
         => /\ objects' = objects
            /\ explanations' = explanations
            /\ sent'[p] <= sent[p]
            /\ users' = users
            /\ http'[p].response.status # 201]_vars

\* C25: the response to a creation request that create rejected for the
\* quota carries the reset time and differs from the response to a refused
\* image, a failed upload and a failed analysis.
C25_QuotaResponseDistinct ==
    \A p \in Procs :
        (http[p].stage = "responded" /\ ret[p] = Err(QuotaExceeded))
        => /\ "resetAt" \in DOMAIN http[p].response.body
           /\ \A msg \in {InvalidFileType, UploadFailed, EmptyResponse, ProviderError} :
                    http[p].response # ResponseTo(Err(msg), TRUE)

\* C26: a record's view counter grows by one in the step in which a getById
\* that found the record updates it, and is left as it was by every other
\* step: a getById that finds nothing, list, and a create that returns a
\* duplicate included.
C26_ViewCounter ==
    [][\A i \in 1..Len(explanations) :
         explanations'[i].view_count =
            explanations[i].view_count
            + (IF \E p \in Procs : /\ op[p] = "getById"
                                   /\ pc[p] = "getByIdUpdate"
                                   /\ pc'[p] = "done"
                                   /\ target[p] = i
               THEN 1 ELSE 0)]_vars

\* a getById has returned a record, whose counter is one more than before
C26_Witness ==
    \E p \in Procs :
        /\ op[p] = "getById" /\ pc[p] = "done" /\ ret[p] = Ok(target[p])
        /\ explanations[target[p]].view_count
                = pre[p].explanations[target[p]].view_count + 1

\* C27: a live record's favourite flag differs from its initial value, which
\* is false, exactly when an odd number of toggleFavorite calls on it have
\* completed, however the calls interleave.
C27_ToggleParity ==
    \A i \in 1..Len(explanations) :
        explanations[i].deleted_at = NULL
        => (explanations[i].is_favorited <=> i \in oddToggles)

\* C28: a list call returns at most 100 items, whatever limit it is given.
C28_PageSizeCapped ==
    \A p \in Procs :
        (op[p] = "list" /\ pc[p] = "done") => Len(out[p].data) <= 100

\* the live records of the caller of a list call that pass each filter the
\* call gives
Wanted(r) ==
    { i \in 1..Len(explanations) :
        /\ explanations[i].user_id = r.userId
        /\ explanations[i].deleted_at = NULL
        /\ (r.category = "" \/ explanations[i].category = r.category)
        /\ (~r.favoritesOnly \/ explanations[i].is_favorited)
        /\ \/ r.search = <<>>
           \/ Contains(explanations[i].explanation_text, r.search)
           \/ Has(explanations[i].tags, r.search) }

\* C29: a list call returns only live records of its caller that pass every
\* filter given, newest first and none twice; total is their number and
\* totalPages is ceil(total / limit); two pages of the same query share no
\* record, and pages 1..totalPages together hold every such record.
C29_ListPages ==
    \A p \in Procs :
        (op[p] = "list" /\ pc[p] = "done") =>
            /\ Listed(p) \subseteq Wanted(req[p])
            /\ \A j, k \in 1..Len(out[p].data) :
                    j < k => /\ out[p].data[j] # out[p].data[k]
                             /\ explanations[out[p].data[j]].created_at
                                    >= explanations[out[p].data[k]].created_at
            /\ out[p].total = Cardinality(Wanted(req[p]))
            /\ out[p].totalPages = CeilDiv(out[p].total, req[p].limit)
            /\ (out[p].totalPages = 1 /\ req[p].page = 1)
                    => Listed(p) = Wanted(req[p])
            /\ \A q \in Procs :
                    (/\ op[q] = "list" /\ pc[q] = "done"
                     /\ req[q].page # req[p].page
                     /\ req[q] = [req[p] EXCEPT !.page = req[q].page])
                    => /\ Listed(p) \cap Listed(q) = {}
                       /\ out[p].totalPages = 2
                            => Listed(p) \cup Listed(q) = Wanted(req[p])

\* C30: a request that the middleware has answered while the keys redis
\* holds count more requests of its user than the tier admits was answered
\* with status 429 and X-RateLimit-Remaining 0.
C30_WindowLimit ==
    \A p \in Procs :
        (/\ op[p] = "rateLimit" /\ pc[p] = "done" /\ req[p].userId # ""
         /\ RequestsCounted(req[p].userId) > RateLimitOf(TierOf(p)).requests)
        => /\ http[p].response.status = 429
           /\ http[p].response.headers.Remaining = 0

\* C31: the daily limit that checkUsageLimit and the rate limit middleware
\* derive from a user's stored tier is 10 for free, 1000 for pro and 10000
\* for developer.
C31_TierLimits ==
    \A u \in UserIds :
        LET tier == users[u].subscription_tier
            expected == CASE tier = "free" -> 10
                          [] tier = "pro" -> 1000
                          [] tier = "developer" -> 10000
        IN  /\ LimitOf(tier) = expected
            /\ RateLimitOf(tier).requests = expected

\* the paths by which analyze produced the result it returned
FromParsedJson(p) ==
    calls[p] = 1 /\ outcome[p] = "ok" /\ TryParse(reply[p]) = "returned"

FromRawText(p) ==
    calls[p] = 1 /\ outcome[p] = "ok" /\ TryParse(reply[p]) # "returned"

FromFallback(p) == calls[p] = 2 /\ outcome[p] = "ok"

\* C32: every result analyze returns, every result it stores in the cache
\* and every persisted explanation has a confidence between 0 and 1
\* (0..10 tenths), whatever confidence the provider's reply contains and
\* whichever path (parsed JSON, unparseable text, fallback request, cache)
\* produced it.
C32_ConfidenceInRange ==
    /\ \A p \in Procs :
          (pc[p] \in {"saveToCache", "done"} /\ ret[p].kind # "error")
          => analysis[p].confidence \in 0..ConfOne
    /\ \A key \in DOMAIN cache :
          JSONparse(cache[key].value).confidence \in 0..ConfOne
    /\ \A i \in 1..Len(explanations) :
          explanations[i] # NoRow => explanations[i].confidence_score \in 0..ConfOne

\* analyze has returned a result parsed from a reply whose confidence lies
\* outside the range
C32_Witness ==
    \E p \in Procs :
        /\ pc[p] = "done" /\ ret[p].kind = "ok" /\ FromParsedJson(p)
        /\ reply[p].json.confIsNumber
        /\ reply[p].json.confidence \notin 0..ConfOne
        /\ analysis[p].confidence \in {0, ConfOne}
\* the usage check of request p has read the clock and found it equal to the
\* stored resetAt, with the count at the tier limit
CheckedAtResetAt(p) ==
    /\ op[p] = "create" /\ tnow[p] # NULL
    /\ snap[p].daily_usage_reset_at = tnow[p]
    /\ LimitReached(snap[p])

\* C33: a usage check that runs at the instant now = resetAt with the count
\* at the tier limit treats the window as expired: the call is not rejected
\* for its quota, and once the check is over the stored resetAt is
\* now + 24h.
C33_ResetAtBoundary ==
    \A p \in Procs :
        CheckedAtResetAt(p)
        => /\ ret[p] # Err(QuotaExceeded)
           /\ pc[p] # "checkReset"
                => users[req[p].userId].daily_usage_reset_at = tnow[p] + DayMs
\* the users that do not own explanation `id`; getHistory is given the
\* explanation id alone, so a call may come from any of them
NonOwners(id) ==
    { u \in UserIds : ~(/\ id \in 1..Len(explanations)
                        /\ explanations[id].user_id = u) }

\* C34: the messages of an explanation can be read only by its owner: a
\* getHistory call for an explanation that a possible caller does not own
\* yields NotFound and returns no message.
C34_HistoryOwnerOnly ==
    \A p \in Procs :
        (op[p] = "getHistory" /\ pc[p] = "done" /\ NonOwners(target[p]) # {})
        => /\ ret[p] = Err(NotFound)
           /\ out[p].data = <<>>
\* request r received 401 while a refresh was in flight and has been sent
\* again after that refresh
Retried(r) ==
    requests[r].joined /\ requests[r].newToken # NULL /\ requests[r].sends = 2

\* C35: when several requests receive 401 while a token refresh is in
\* flight, one refresh request is sent for all of them; each of them is sent
\* again carrying the token that refresh returned; a request is sent at most
\* twice (the original and one retry); and when the refresh fails the user is
\* signed out and the requests are rejected.
C35_SingleRefresh ==
    /\ posts <= 1
    /\ \A r \in Requests :
          /\ requests[r].sends <= 2
          /\ Retried(r) => requests[r].authorization = requests[r].newToken
          /\ requests[r].error = RefreshFailed
                => requests[r].result = "rejected" /\ session = NoSession
\* the urls of the queued requests, in queue order
Urls(queue) == [k \in 1..Len(queue) |-> queue[k].url]

Ascending(seq) == \A j, k \in 1..Len(seq) : j < k => seq[j] < seq[k]

Count(seq, x) == Cardinality({ k \in 1..Len(seq) : seq[k] = x })

Present(owner, url, thumbnail) ==
    \E o \in objects : o.owner = owner /\ o.url = url /\ o.thumbnail = thumbnail

\* C36: the image URL and the thumbnail URL of every live explanation refer
\* to objects that are present in storage, after any sequence of create and
\* delete calls of the owner, create, delete and create again with the same
\* image included.
C36_LiveImagesStored ==
    \A i \in 1..Len(explanations) :
        (explanations[i] # NoRow /\ explanations[i].deleted_at = NULL)
        => /\ Present(explanations[i].user_id, explanations[i].image_url, FALSE)
           /\ explanations[i].image_thumbnail_url # NULL
                => Present(explanations[i].user_id,
                           explanations[i].image_thumbnail_url, TRUE)
\* C37: an empty provider reply, on the primary request or on the fallback
\* request, makes analyze fail: once the last request of a call has been
\* answered without content the call has ended with an error, and a create
\* has inserted no explanation (so that nothing is counted against the
\* quota).
C37_EmptyReplyFails ==
    \A p \in Procs :
        outcome[p] = "empty"
        => /\ pc[p] = "done"
           /\ ret[p].kind = "error"
           /\ newId[p] = NULL
\* C38: when the create calls of a user do not overlap in time, every
\* reachable state holds at most one live explanation per owner and image
\* hash, also after deletes and re-creations.
C38_OneLivePerImage ==
    \A u \in UserIds : \A h \in Images :
        Cardinality(LiveSameImage(explanations, u, h)) <= 1

\* a record deleted by a call of this history, and a live record of the same
\* owner and image created after it
C38_Witness ==
    \E i \in deletedOK : \E j \in NewRecords :
        /\ explanations[j].user_id = explanations[i].user_id
        /\ explanations[j].image_hash = explanations[i].image_hash
        /\ explanations[i].deleted_at # NULL
        /\ explanations[j].deleted_at = NULL
====
